---- MODULE Spec2Model ----
(***************************************************************************)
(* Model of the PC recommender's candidate-to-recommendation pipeline:     *)
(* title-based specification extraction (app/api/recommend/route.ts),      *)
(* eligibility filtering and scoring/ranking (lib/rank.ts).                *)
(*                                                                         *)
(* Conventions                                                             *)
(*  - titles, labels and reason lines are strings; the regular expressions *)
(*    of the source are matched character by character;                    *)
(*  - a price is an integer number of cents; an optional property of a     *)
(*    JavaScript object (gpu, storageGb, storageType, options.limit, ...)   *)
(*    is a field that is or is not in the DOMAIN of the record; a price or  *)
(*    RAM size that is not a finite number is modelled as an absent field;  *)
(*  - a tolerance is an integer percentage, a score an integer number of   *)
(*    tenths; the arithmetic is exact (rational) arithmetic.               *)
(***************************************************************************)
EXTENDS Integers, Sequences, FiniteSets, TLC

VARIABLES
    pc,            \* position of the request: "idle", "await", "done", "threw"
    caller,        \* who runs the ranking: "none", "route" (POST), "library" (a direct call)
    configured,    \* getCanopyClientFromEnv returned a client
    search,        \* the upstream call: "none", "pending", "ok", "threw", "notOk"
    searchParams,  \* the argument of canopy.searchAmazon
    results,       \* raw product records returned by the upstream search
    candidates,    \* the array handed to recommendFromCandidates
    prefs,         \* UserPreferences of the request
    options,       \* options argument of recommendFromCandidates
    usedMockData,  \* flag of the POST handler
    filtered,      \* local `filtered` of the last recommendFromCandidates call
    recs,          \* value returned by the last recommendFromCandidates call
    client,        \* the ResultsClient component: its prefs prop and its state
    runs,          \* the runs of the effect of ResultsClient, in the order they started
    mockCandidates, \* the module-level array MOCK_CANDIDATES, shared by every request
    given          \* the array of the last call as it was when it was handed over

vars == <<pc, caller, configured, search, searchParams, results, candidates, prefs, options,
          usedMockData, filtered, recs, client, runs, mockCandidates, given>>

(***************************************************************************)
(* Characters and strings                                                  *)
(***************************************************************************)
Ch(s, i) == IF i >= 1 /\ i <= Len(s) THEN SubSeq(s, i, i) ELSE ""

Digits == {"0", "1", "2", "3", "4", "5", "6", "7", "8", "9"}

UpperCase == {"A", "B", "C", "D", "E", "F", "G", "H", "I", "J", "K", "L", "M",
              "N", "O", "P", "Q", "R", "S", "T", "U", "V", "W", "X", "Y", "Z"}

LowerCase == {"a", "b", "c", "d", "e", "f", "g", "h", "i", "j", "k", "l", "m",
              "n", "o", "p", "q", "r", "s", "t", "u", "v", "w", "x", "y", "z"}

LowerOf == [c \in UpperCase |->
    CASE c = "A" -> "a" [] c = "B" -> "b" [] c = "C" -> "c" [] c = "D" -> "d"
      [] c = "E" -> "e" [] c = "F" -> "f" [] c = "G" -> "g" [] c = "H" -> "h"
      [] c = "I" -> "i" [] c = "J" -> "j" [] c = "K" -> "k" [] c = "L" -> "l"
      [] c = "M" -> "m" [] c = "N" -> "n" [] c = "O" -> "o" [] c = "P" -> "p"
      [] c = "Q" -> "q" [] c = "R" -> "r" [] c = "S" -> "s" [] c = "T" -> "t"
      [] c = "U" -> "u" [] c = "V" -> "v" [] c = "W" -> "w" [] c = "X" -> "x"
      [] c = "Y" -> "y" [] c = "Z" -> "z"]

DigitVal == [c \in Digits |->
    CASE c = "0" -> 0 [] c = "1" -> 1 [] c = "2" -> 2 [] c = "3" -> 3
      [] c = "4" -> 4 [] c = "5" -> 5 [] c = "6" -> 6 [] c = "7" -> 7
      [] c = "8" -> 8 [] c = "9" -> 9]

\* String.prototype.toLowerCase
RECURSIVE toLowerCase(_)
toLowerCase(s) ==
    IF s = "" THEN ""
    ELSE LET c == Head(s)
         IN  (IF c \in UpperCase THEN LowerOf[c] ELSE c) \o toLowerCase(Tail(s))

\* \w of a regular expression
IsWord(c) == c \in Digits \/ c \in UpperCase \/ c \in LowerCase \/ c = "_"

\* \s of a regular expression
IsSpace(c) == c \in {" ", "\t", "\n"}

\* \b at position i: between the characters i-1 and i
WordBoundary(s, i) == IsWord(Ch(s, i - 1)) # IsWord(Ch(s, i))

\* \s* from position i: the first position that is not white space
RECURSIVE SkipSpaces(_, _)
SkipSpaces(s, i) == IF IsSpace(Ch(s, i)) THEN SkipSpaces(s, i + 1) ELSE i

\* \d* from position i (greedy): the number of digits starting at i
RECURSIVE DigitRun(_, _)
DigitRun(s, i) == IF Ch(s, i) \in Digits THEN 1 + DigitRun(s, i + 1) ELSE 0

\* a literal at position i of a lower-cased text: the position after it, 0 if no match
Lit(t, i, lit) ==
    IF i >= 1 /\ i + Len(lit) - 1 <= Len(t) /\ SubSeq(t, i, i + Len(lit) - 1) = lit
    THEN i + Len(lit) ELSE 0

\* \s+ then a literal
SpLit(t, i, lit) ==
    IF i >= 1 /\ IsSpace(Ch(t, i)) THEN Lit(t, SkipSpaces(t, i), lit) ELSE 0

\* \s* then a literal
OptSpLit(t, i, lit) == IF i >= 1 THEN Lit(t, SkipSpaces(t, i), lit) ELSE 0

\* the positions at which a pattern can start in a text
Positions(t) == 1..(Len(t) + 1)

\* String.prototype.match: the leftmost of the positions where a pattern matches, 0 if none
Leftmost(hits) == IF hits = {} THEN 0 ELSE CHOOSE i \in hits : \A j \in hits : i <= j

\* RegExp.prototype.test for a plain substring
Contains(t, lit) == \E i \in 1..Len(t) : Lit(t, i, lit) # 0

\* Number() of a string of decimal digits
RECURSIVE NumberOf(_)
NumberOf(d) ==
    IF d = "" THEN 0
    ELSE 10 * NumberOf(SubSeq(d, 1, Len(d) - 1)) + DigitVal[Ch(d, Len(d))]

RECURSIVE Pow10(_)
Pow10(k) == IF k = 0 THEN 1 ELSE 10 * Pow10(k - 1)

(***************************************************************************)
(* Specification extractor: app/api/recommend/route.ts                     *)
(* Every regular expression has the i flag: literals are matched against   *)
(* the lower-cased title t, captures are taken from the original text.     *)
(***************************************************************************)

\* exactly k digits at position i (\d{k}): the position after them, 0 if no match
DigitsAt(t, i, k) == IF i >= 1 /\ DigitRun(t, i) >= k THEN i + k ELSE 0

\* a trailing \b: e if a word boundary is at e, else 0
EndB(t, e) == IF e >= 1 /\ WordBoundary(t, e) THEN e ELSE 0

\* the first of two alternatives that matches
OrElse(a, b) == IF a # 0 THEN a ELSE b

\* /\b(\d{1,3})\s*GB\s*(?:DDR[45]\s*)?RAM\b/i at position i
RamMatchAt(t, i) ==
    LET n == DigitRun(t, i)
        a == SkipSpaces(t, OptSpLit(t, i + n, "gb"))
        d == OrElse(Lit(t, a, "ddr4"), Lit(t, a, "ddr5"))
    IN  IF WordBoundary(t, i) /\ n >= 1 /\ n <= 3
        THEN OrElse(EndB(t, OptSpLit(t, d, "ram")), EndB(t, Lit(t, a, "ram")))
        ELSE 0

\* /\b(\d{1,3})\s*GB\s*DDR[45]\b/i at position i
DdrMatchAt(t, i) ==
    LET n == DigitRun(t, i)
        a == OptSpLit(t, i + n, "gb")
    IN  IF WordBoundary(t, i) /\ n >= 1 /\ n <= 3
        THEN EndB(t, OrElse(OptSpLit(t, a, "ddr4"), OptSpLit(t, a, "ddr5")))
        ELSE 0

\* the result of parseRamGb, parseCpu and parseGpu: <<>> is null, <<v>> is v
parseRamGb(text) ==
    LET t == toLowerCase(text)
        ramMatch == Leftmost({i \in Positions(t) : RamMatchAt(t, i) # 0})
        ddrMatch == Leftmost({i \in Positions(t) : DdrMatchAt(t, i) # 0})
    IN  IF ramMatch # 0
        THEN <<NumberOf(SubSeq(text, ramMatch, ramMatch + DigitRun(t, ramMatch) - 1))>>
        ELSE IF ddrMatch # 0
        THEN <<NumberOf(SubSeq(text, ddrMatch, ddrMatch + DigitRun(t, ddrMatch) - 1))>>
        ELSE <<>>

\* /\b(\d+(?:\.\d+)?)\s*TB\b/i at position i
TbMatchAt(t, i) ==
    LET n == DigitRun(t, i)
        m == IF Ch(t, i + n) = "." THEN DigitRun(t, i + n + 1) ELSE 0
    IN  IF WordBoundary(t, i) /\ n >= 1
        THEN OrElse(IF m >= 1 THEN EndB(t, OptSpLit(t, i + n + 1 + m, "tb")) ELSE 0,
                    EndB(t, OptSpLit(t, i + n, "tb")))
        ELSE 0

\* /\b(\d{3,4})\s*GB\b/i at position i
GbMatchAt(t, i) ==
    LET n == DigitRun(t, i)
    IN  IF WordBoundary(t, i) /\ n >= 3 /\ n <= 4
        THEN EndB(t, OptSpLit(t, i + n, "gb"))
        ELSE 0

\* Math.round(Number("<int>.<frac>") * 1024), frac possibly empty
RoundTb(int, frac) ==
    LET k == Len(frac)
        N == NumberOf(int) * Pow10(k) + NumberOf(frac)
    IN  (2 * 1024 * N + Pow10(k)) \div (2 * Pow10(k))

\* /\bhdd\b/ on the lower-cased title
IsHdd(t) == \E i \in 1..Len(t) : WordBoundary(t, i) /\ EndB(t, Lit(t, i, "hdd")) # 0

\* parseStorage with the GB pattern tried before the TB pattern
parseStorageGbFirst(text) ==
    LET lowerText == toLowerCase(text)
        isSsd == Contains(lowerText, "nvme") \/ Contains(lowerText, "ssd")
        isHdd == IsHdd(lowerText)
        type == IF isSsd THEN "SSD" ELSE IF isHdd THEN "HDD" ELSE "Unknown"
        tbMatch == Leftmost({i \in Positions(lowerText) : TbMatchAt(lowerText, i) # 0})
        gbMatch == Leftmost({i \in Positions(lowerText) : GbMatchAt(lowerText, i) # 0})
    IN  IF gbMatch # 0
        THEN [gb |-> NumberOf(SubSeq(text, gbMatch, gbMatch + DigitRun(text, gbMatch) - 1)),
              type |-> type]
        ELSE IF tbMatch # 0
        THEN LET n == DigitRun(text, tbMatch)
                 m == IF Ch(text, tbMatch + n) = "." THEN DigitRun(text, tbMatch + n + 1) ELSE 0
             IN  [gb |-> RoundTb(SubSeq(text, tbMatch, tbMatch + n - 1),
                                 SubSeq(text, tbMatch + n + 1, tbMatch + n + m)),
                  type |-> type]
        ELSE <<>>

\* the result of parseStorage: a record with gb and type, or with neither
parseStorage(text) ==
    LET lowerText == toLowerCase(text)
        isSsd == Contains(lowerText, "nvme") \/ Contains(lowerText, "ssd")
        isHdd == IsHdd(lowerText)
        type == IF isSsd THEN "SSD" ELSE IF isHdd THEN "HDD" ELSE "Unknown"
        tbMatch == Leftmost({i \in Positions(lowerText) : TbMatchAt(lowerText, i) # 0})
        gbMatch == Leftmost({i \in Positions(lowerText) : GbMatchAt(lowerText, i) # 0})
    IN  IF tbMatch # 0
        THEN LET n == DigitRun(text, tbMatch)
                 m == IF Ch(text, tbMatch + n) = "." THEN DigitRun(text, tbMatch + n + 1) ELSE 0
             IN  [gb |-> RoundTb(SubSeq(text, tbMatch, tbMatch + n - 1),
                                 SubSeq(text, tbMatch + n + 1, tbMatch + n + m)),
                  type |-> type]
        ELSE IF gbMatch # 0
        THEN [gb |-> NumberOf(SubSeq(text, gbMatch, gbMatch + DigitRun(text, gbMatch) - 1)),
              type |-> type]
        ELSE <<>>

\* /\b(Intel\s+Core\s+i[3579])\b/i at position i
IntelCoreAt(t, i) ==
    LET c == SpLit(t, SpLit(t, Lit(t, i, "intel"), "core"), "i")
    IN  IF WordBoundary(t, i) /\ c # 0 /\ Ch(t, c) \in {"3", "5", "7", "9"}
        THEN EndB(t, c + 1) ELSE 0

\* /\b(AMD\s+Ryzen\s+[3579])\b/i at position i
AmdRyzenAt(t, i) ==
    LET c == SpLit(t, SpLit(t, Lit(t, i, "amd"), "ryzen"), "")
    IN  IF WordBoundary(t, i) /\ c # 0 /\ Ch(t, c) \in {"3", "5", "7", "9"}
        THEN EndB(t, c + 1) ELSE 0

\* /\b(Apple\s+M\d(?:\s+Pro|\s+Max)?)\b/i at position i
AppleAt(t, i) ==
    LET p == DigitsAt(t, SpLit(t, Lit(t, i, "apple"), "m"), 1)
    IN  IF WordBoundary(t, i) /\ p # 0
        THEN OrElse(EndB(t, SpLit(t, p, "pro")),
                    OrElse(EndB(t, SpLit(t, p, "max")), EndB(t, p)))
        ELSE 0

\* the text captured by a match from position i to position e - 1, <<>> if i = 0 (no match)
Capture(text, i, e) == IF i = 0 THEN <<>> ELSE <<SubSeq(text, i, e - 1)>>

parseCpu(text) ==
    LET t == toLowerCase(text)
        intel == Leftmost({i \in Positions(t) : IntelCoreAt(t, i) # 0})
        amd == Leftmost({i \in Positions(t) : AmdRyzenAt(t, i) # 0})
        apple == Leftmost({i \in Positions(t) : AppleAt(t, i) # 0})
        intelMatch == Capture(text, intel, IntelCoreAt(t, intel))
        amdMatch == Capture(text, amd, AmdRyzenAt(t, amd))
        appleMatch == Capture(text, apple, AppleAt(t, apple))
    IN  IF intelMatch # <<>> THEN intelMatch
        ELSE IF amdMatch # <<>> THEN amdMatch
        ELSE appleMatch

\* /\b(GeForce\s+RTX\s*\d{4}(?:\s*(?:Ti|SUPER))?)\b/i at position i
RtxAt(t, i) ==
    LET d == DigitsAt(t, SkipSpaces(t, SpLit(t, Lit(t, i, "geforce"), "rtx")), 4)
    IN  IF WordBoundary(t, i) /\ d # 0
        THEN OrElse(EndB(t, OptSpLit(t, d, "ti")),
                    OrElse(EndB(t, OptSpLit(t, d, "super")), EndB(t, d)))
        ELSE 0

\* /\b(GeForce\s+GTX\s*\d{4}(?:\s*SUPER)?)\b/i at position i
GtxAt(t, i) ==
    LET d == DigitsAt(t, SkipSpaces(t, SpLit(t, Lit(t, i, "geforce"), "gtx")), 4)
    IN  IF WordBoundary(t, i) /\ d # 0
        THEN OrElse(EndB(t, OptSpLit(t, d, "super")), EndB(t, d))
        ELSE 0

\* /\b(Radeon\s+RX\s*\d{4}(?:\s*XT)?)\b/i at position i
RadeonAt(t, i) ==
    LET d == DigitsAt(t, SkipSpaces(t, SpLit(t, Lit(t, i, "radeon"), "rx")), 4)
    IN  IF WordBoundary(t, i) /\ d # 0
        THEN OrElse(EndB(t, OptSpLit(t, d, "xt")), EndB(t, d))
        ELSE 0

\* /\b(Intel\s+Arc\s+A\d{3})\b/i at position i
ArcAt(t, i) ==
    LET d == DigitsAt(t, SpLit(t, SpLit(t, Lit(t, i, "intel"), "arc"), "a"), 3)
    IN  IF WordBoundary(t, i) /\ d # 0 THEN EndB(t, d) ELSE 0

parseGpu(text) ==
    LET t == toLowerCase(text)
        rtx == Leftmost({i \in Positions(t) : RtxAt(t, i) # 0})
        gtx == Leftmost({i \in Positions(t) : GtxAt(t, i) # 0})
        radeon == Leftmost({i \in Positions(t) : RadeonAt(t, i) # 0})
        arc == Leftmost({i \in Positions(t) : ArcAt(t, i) # 0})
        rtxMatch == Capture(text, rtx, RtxAt(t, rtx))
        gtxMatch == Capture(text, gtx, GtxAt(t, gtx))
        radeonMatch == Capture(text, radeon, RadeonAt(t, radeon))
        arcMatch == Capture(text, arc, ArcAt(t, arc))
    IN  IF rtxMatch # <<>> THEN <<"NVIDIA " \o rtxMatch[1]>>
        ELSE IF gtxMatch # <<>> THEN <<"NVIDIA " \o gtxMatch[1]>>
        ELSE IF radeonMatch # <<>> THEN <<"AMD " \o radeonMatch[1]>>
        ELSE arcMatch


\* an optional property of an object: <<>> when absent (undefined), <<v>> when present
Opt(o, f) == IF f \in DOMAIN o THEN <<o[f]>> ELSE <<>>

\* an object literal property that is left out when its value is undefined
Prop(f, v) == IF v = <<>> THEN <<>> ELSE [x \in {f} |-> v[1]]

\* mapCanopyResultToListing: <<>> is null, <<listing>> a listing
mapCanopyResultToListing(raw) ==
    LET title == raw.title
        amazonUrl == raw.url
        cpu == parseCpu(title)
        ramGb == parseRamGb(title)
        gpu == parseGpu(title)
        storage == parseStorage(title)
    IN  IF "price" \notin DOMAIN raw \/ "value" \notin DOMAIN raw.price THEN <<>>
        ELSE IF title = "" \/ amazonUrl = "" THEN <<>>
        ELSE IF cpu = <<>> \/ cpu = <<"">> \/ ramGb = <<>> THEN <<>>
        ELSE << [id |-> amazonUrl,
                 title |-> title,
                 amazonUrl |-> amazonUrl,
                 priceUsd |-> raw.price.value,
                 cpu |-> cpu[1],
                 ramGb |-> ramGb[1]]
                @@ Prop("gpu", gpu)
                @@ Prop("storageGb", Opt(storage, "gb"))
                @@ Prop("storageType", Opt(storage, "type"))
                @@ Prop("imageUrl", Opt(raw, "mainImageUrl")) >>

(***************************************************************************)
(* Eligibility filter, scorer and ranker: lib/rank.ts                      *)
(***************************************************************************)

\* the number Infinity: larger than every price and bound of the model
Infinity == 2147483647

BudgetRanges == {"under700", "700-999", "1000-1499", "1500plus"}

StorageTiers == {"256-512", "1tb", "2tb", "any"}

\* the value undefined: an object without properties
undefined == << >>

\* budgetRangeToMinMax with the case of the last budget range left out
budgetRangeWithoutLastCase(budgetRange) ==
    CASE budgetRange = "under700"  -> [min |-> 0, max |-> 700]
      [] budgetRange = "700-999"   -> [min |-> 700, max |-> 999]
      [] budgetRange = "1000-1499" -> [min |-> 1000, max |-> 1499]
      [] OTHER                     -> undefined

\* budgetRangeToMinMax with each upper bound at the lower bound of the next range
budgetRangeUpToNext(budgetRange) ==
    CASE budgetRange = "under700"  -> [min |-> 0, max |-> 700]
      [] budgetRange = "700-999"   -> [min |-> 700, max |-> 1000]
      [] budgetRange = "1000-1499" -> [min |-> 1000, max |-> 1500]
      [] budgetRange = "1500plus"  -> [min |-> 1500, max |-> Infinity]
      [] OTHER                     -> undefined

\* storageTierToMinGb with decimal terabytes
storageTierDecimal(tier) ==
    CASE tier = "256-512" -> <<256>>
      [] tier = "1tb"     -> <<1000>>
      [] tier = "2tb"     -> <<2000>>
      [] tier = "any"     -> <<>>
      [] OTHER            -> <<>>

\* budgetRangeToMinMax, in dollars; the switch has no default and returns undefined
budgetRangeToMinMax(budgetRange) ==
    CASE budgetRange = "under700"  -> [min |-> 0, max |-> 700]
      [] budgetRange = "700-999"   -> [min |-> 700, max |-> 999]
      [] budgetRange = "1000-1499" -> [min |-> 1000, max |-> 1499]
      [] budgetRange = "1500plus"  -> [min |-> 1500, max |-> Infinity]
      [] OTHER                     -> undefined

\* storageTierToMinGb: <<>> is null, and undefined when no case of the switch matches
storageTierToMinGb(tier) ==
    CASE tier = "256-512" -> <<256>>
      [] tier = "1tb"     -> <<1024>>
      [] tier = "2tb"     -> <<2048>>
      [] tier = "any"     -> <<>>
      [] OTHER            -> <<>>

Min2(a, b) == IF a <= b THEN a ELSE b

Max2(a, b) == IF a >= b THEN a ELSE b

Abs(a) == IF a >= 0 THEN a ELSE 0 - a

clamp(value, min, max) == Max2(min, Min2(max, value))

\* /\bi9\b/ and its like on a lower-cased text
HasWord(t, w) == \E i \in 1..Len(t) : WordBoundary(t, i) /\ EndB(t, Lit(t, i, w)) # 0

\* /ryzen\s*9/ and its like: a literal, optional white space, a literal
HasPair(t, a, b) == \E i \in 1..Len(t) : OptSpLit(t, Lit(t, i, a), b) # 0

inferCpuTier(cpuText) ==
    LET t == toLowerCase(cpuText)
    IN  IF Contains(t, "celeron") \/ Contains(t, "pentium") \/ Contains(t, "athlon") THEN 1
        ELSE IF \E i \in 1..Len(t) : Ch(t, i) = "m" /\ Ch(t, i + 1) \in Digits \ {"0"}
        THEN (IF Contains(t, "max") THEN 5 ELSE IF Contains(t, "pro") THEN 4 ELSE 3)
        ELSE IF HasWord(t, "i9") THEN 5
        ELSE IF HasWord(t, "i7") THEN 4
        ELSE IF HasWord(t, "i5") THEN 3
        ELSE IF HasWord(t, "i3") THEN 2
        ELSE IF HasPair(t, "ryzen", "9") THEN 5
        ELSE IF HasPair(t, "ryzen", "7") THEN 4
        ELSE IF HasPair(t, "ryzen", "5") THEN 3
        ELSE IF HasPair(t, "ryzen", "3") THEN 2
        ELSE 2

\* /rtx\s*(\d{4})/ and /gtx\s*(\d{4})/ at position i
BrandModelAt(t, i, brand) == DigitsAt(t, SkipSpaces(t, Lit(t, i, brand)), 4)

\* /\brx\s*(\d{4})/ at position i
RxModelAt(t, i) == IF WordBoundary(t, i) THEN BrandModelAt(t, i, "rx") ELSE 0

\* /\barc\s*a(\d{3})/ at position i
ArcModelAt(t, i) ==
    IF WordBoundary(t, i)
    THEN DigitsAt(t, Lit(t, SkipSpaces(t, Lit(t, i, "arc")), "a"), 3)
    ELSE 0

\* the model number read one too low: every threshold `>=` then acts as `>`
ModelNumberBelow(t, e, k) == IF e = 0 THEN <<>> ELSE <<NumberOf(SubSeq(t, e - k, e - 1)) - 1>>

\* Number() of the k digits that end a match at position e - 1: <<>> if e = 0 (no match)
ModelNumber(t, e, k) == IF e = 0 THEN <<>> ELSE <<NumberOf(SubSeq(t, e - k, e - 1))>>

\* /(uhd|iris|xe\b|intel graphics|radeon graphics)/
IsIntegrated(t) ==
    \/ Contains(t, "uhd")
    \/ Contains(t, "iris")
    \/ \E i \in 1..Len(t) : EndB(t, Lit(t, i, "xe")) # 0
    \/ Contains(t, "intel graphics")
    \/ Contains(t, "radeon graphics")

\* /\brx\s*\d{4}\b/
HasRxModel(t) == \E i \in 1..Len(t) : EndB(t, RxModelAt(t, i)) # 0

inferGpuTier(gpuText) ==
    IF gpuText = <<>> \/ gpuText = <<"">> THEN [tier |-> 0, isDiscrete |-> FALSE]
    ELSE
    LET t == toLowerCase(gpuText[1])
        rtxAt == Leftmost({i \in Positions(t) : BrandModelAt(t, i, "rtx") # 0})
        gtxAt == Leftmost({i \in Positions(t) : BrandModelAt(t, i, "gtx") # 0})
        rxAt == Leftmost({i \in Positions(t) : RxModelAt(t, i) # 0})
        arcAt == Leftmost({i \in Positions(t) : ArcModelAt(t, i) # 0})
        rtx == ModelNumber(t, BrandModelAt(t, rtxAt, "rtx"), 4)
        gtx == ModelNumber(t, BrandModelAt(t, gtxAt, "gtx"), 4)
        rx == ModelNumber(t, RxModelAt(t, rxAt), 4)
        arc == ModelNumber(t, ArcModelAt(t, arcAt), 3)
    IN  IF IsIntegrated(t) /\ ~HasRxModel(t) THEN [tier |-> 0, isDiscrete |-> FALSE]
        ELSE IF rtx # <<>>
        THEN (IF rtx[1] >= 4080 THEN [tier |-> 5, isDiscrete |-> TRUE]
              ELSE IF rtx[1] >= 4070 THEN [tier |-> 4, isDiscrete |-> TRUE]
              ELSE IF rtx[1] >= 4060 THEN [tier |-> 3, isDiscrete |-> TRUE]
              ELSE IF rtx[1] >= 3060 THEN [tier |-> 2, isDiscrete |-> TRUE]
              ELSE [tier |-> 1, isDiscrete |-> TRUE])
        ELSE IF gtx # <<>>
        THEN (IF gtx[1] >= 1660 THEN [tier |-> 1, isDiscrete |-> TRUE]
              ELSE [tier |-> 1, isDiscrete |-> TRUE])
        ELSE IF rx # <<>>
        THEN (IF rx[1] >= 7900 THEN [tier |-> 5, isDiscrete |-> TRUE]
              ELSE IF rx[1] >= 7800 THEN [tier |-> 4, isDiscrete |-> TRUE]
              ELSE IF rx[1] >= 7600 THEN [tier |-> 3, isDiscrete |-> TRUE]
              ELSE IF rx[1] >= 6600 THEN [tier |-> 2, isDiscrete |-> TRUE]
              ELSE [tier |-> 1, isDiscrete |-> TRUE])
        ELSE IF arc # <<>>
        THEN (IF arc[1] >= 770 THEN [tier |-> 3, isDiscrete |-> TRUE]
              ELSE IF arc[1] >= 750 THEN [tier |-> 2, isDiscrete |-> TRUE]
              ELSE [tier |-> 1, isDiscrete |-> TRUE])
        ELSE IF Contains(t, "rtx") \/ Contains(t, "gtx") \/ HasWord(t, "rx") \/ Contains(t, "arc")
        THEN [tier |-> 1, isDiscrete |-> TRUE]
        ELSE [tier |-> 0, isDiscrete |-> FALSE]

inferRamScore(ramGb) ==
    IF ramGb >= 32 THEN 3
    ELSE IF ramGb >= 16 THEN 2
    ELSE IF ramGb >= 8 THEN 1
    ELSE 0

\* Number.isFinite(listing[f]): the field holds a finite number
IsFiniteField(listing, f) == f \in DOMAIN listing

\* strictMeetsRequirements without its RAM check
strictWithoutRamCheck(listing) ==
    IF ~IsFiniteField(listing, "priceUsd") \/ listing.priceUsd <= 0
    THEN [ok |-> FALSE, reason |-> "Missing price"]
    ELSE IF "amazonUrl" \notin DOMAIN listing \/ listing.amazonUrl = ""
    THEN [ok |-> FALSE, reason |-> "Missing URL"]
    ELSE IF "cpu" \notin DOMAIN listing \/ listing.cpu = ""
    THEN [ok |-> FALSE, reason |-> "Missing CPU"]
    ELSE [ok |-> TRUE]

strictMeetsRequirements(listing) ==
    IF ~IsFiniteField(listing, "priceUsd") \/ listing.priceUsd <= 0
    THEN [ok |-> FALSE, reason |-> "Missing price"]
    ELSE IF "amazonUrl" \notin DOMAIN listing \/ listing.amazonUrl = ""
    THEN [ok |-> FALSE, reason |-> "Missing URL"]
    ELSE IF "cpu" \notin DOMAIN listing \/ listing.cpu = ""
    THEN [ok |-> FALSE, reason |-> "Missing CPU"]
    ELSE IF ~IsFiniteField(listing, "ramGb") \/ listing.ramGb <= 0
    THEN [ok |-> FALSE, reason |-> "Missing RAM"]
    ELSE [ok |-> TRUE]


\* the decimal digits of r / 1024 after the decimal point, 0 <= r < 1024
RECURSIVE FractionDigits(_)
FractionDigits(r) ==
    IF r = 0 THEN ""
    ELSE ToString((10 * r) \div 1024) \o FractionDigits((10 * r) % 1024)

\* the template literal `${storageGb / 1024}`: the number storageGb / 1024 as a string
FormatTb(storageGb) ==
    IF storageGb % 1024 = 0 THEN ToString(storageGb \div 1024)
    ELSE ToString(storageGb \div 1024) \o "." \o FractionDigits(storageGb % 1024)

\* the first filter of recommendFromCandidates
HasRequiredData(c) == strictMeetsRequirements(c).ok

\* budgetMinTol and budgetMaxTol in cents; tolerancePct is a whole percentage
BudgetMinTol(budgetMin, tolerancePct) ==
    IF budgetMin = 0 THEN 0 ELSE budgetMin * (100 - tolerancePct)

\* budgetMaxTol without the widening
BudgetMaxTolUnwidened(budgetMax, tolerancePct) ==
    IF budgetMax = Infinity THEN Infinity ELSE budgetMax * 100

BudgetMaxTol(budgetMax, tolerancePct) ==
    IF budgetMax = Infinity THEN Infinity ELSE budgetMax * (100 + tolerancePct)

\* the budget filter with both ends excluded
WithinBudgetExclusive(c, budgetMinTol, budgetMaxTol) ==
    c.priceUsd > budgetMinTol /\ c.priceUsd < budgetMaxTol

\* the second filter of recommendFromCandidates
WithinBudget(c, budgetMinTol, budgetMaxTol) ==
    c.priceUsd >= budgetMinTol /\ c.priceUsd <= budgetMaxTol

\* the storage filter rejecting a listing whose storage size is unknown
HasEnoughStorageStrict(c, minStorageGb) ==
    IF minStorageGb = <<>> THEN TRUE
    ELSE IF "storageGb" \notin DOMAIN c \/ c.storageGb = 0 THEN FALSE
    ELSE c.storageGb >= minStorageGb[1]

\* the third filter of recommendFromCandidates
HasEnoughStorage(c, minStorageGb) ==
    IF minStorageGb = <<>> THEN TRUE
    ELSE IF "storageGb" \notin DOMAIN c \/ c.storageGb = 0 THEN TRUE
    ELSE c.storageGb >= minStorageGb[1]

\* options?.limit ?? 5
LimitOf(opts) == IF "limit" \in DOMAIN opts THEN opts.limit ELSE 5

\* the tolerance with a default of no tolerance
TolerancePctOfNone(opts) ==
    IF "budgetTolerancePct" \in DOMAIN opts THEN opts.budgetTolerancePct ELSE 0

\* options?.budgetTolerancePct ?? 0.12, as a percentage
TolerancePctOf(opts) ==
    IF "budgetTolerancePct" \in DOMAIN opts THEN opts.budgetTolerancePct ELSE 12

\* the local `filtered` of recommendFromCandidates
Filtered(cands, p, opts) ==
    LET range == budgetRangeToMinMax(p.budgetRange)
        budgetMinTol == BudgetMinTol(range.min, TolerancePctOf(opts))
        budgetMaxTol == BudgetMaxTol(range.max, TolerancePctOf(opts))
        minStorageGb == storageTierToMinGb(p.minSsdStorageTier)
        step1 == SelectSeq(cands, HasRequiredData)
        step2 == SelectSeq(step1, LAMBDA c : WithinBudget(c, budgetMinTol, budgetMaxTol))
    IN  SelectSeq(step2, LAMBDA c : HasEnoughStorage(c, minStorageGb))

\* perf with the weights of the GPU and the RAM exchanged
PerfWeightsExchanged(cpuTier, gpuTier, ramScore) == 4 * cpuTier + 2 * gpuTier + 4 * ramScore

\* perf in tenths: 10 * (0.4 * cpuTier + 0.4 * gpuTier + 0.2 * ramScore)
Perf(cpuTier, gpuTier, ramScore) == 4 * cpuTier + 4 * gpuTier + 2 * ramScore

\* rangeMid in cents
RangeMid(budgetMin, budgetMax) ==
    IF budgetMax = Infinity THEN budgetMin * 120 ELSE (budgetMin + budgetMax) * 50

\* budgetFit as the numerator of a fraction with denominator rangeMid
BudgetFitNum(priceUsd, rangeMid) ==
    IF rangeMid <= 0 THEN 0
    ELSE rangeMid - clamp(Abs(priceUsd - rangeMid), 0, rangeMid)

\* score in tenths: Math.round((perf * 20 + budgetFit * 20) * 10) of the exact value
Score(perf, budgetFitNum, rangeMid) ==
    IF rangeMid <= 0 THEN 20 * perf
    ELSE 20 * perf + (400 * budgetFitNum + rangeMid) \div (2 * rangeMid)

\* the exact value of (perf * 20 + budgetFit * 20) * 10 lies halfway between two integers
IsHalfway(budgetFitNum, rangeMid) ==
    rangeMid > 0 /\ (400 * budgetFitNum) % (2 * rangeMid) = rangeMid

\* The double that Math.round receives differs from the exact value by a rounding
\* error, which decides the direction at a halfway point.  At budgetFit 0.9975 (a
\* price 4.50 from the midpoint 1800) the double 0.4 * cpuTier + 0.4 * gpuTier +
\* 0.2 * ramScore of the tiers (2, 5, 2) and (5, 2, 2) makes the argument
\* 839.4999999999999, which rounds down; for every other tier triple the argument
\* is at or above the halfway point.
RoundsDownAtHalfway(cpuTier, gpuTier, ramScore, budgetFitNum, rangeMid) ==
    /\ IsHalfway(budgetFitNum, rangeMid)
    /\ 400 * budgetFitNum = 399 * rangeMid
    /\ <<cpuTier, gpuTier, ramScore>> \in {<<2, 5, 2>>, <<5, 2, 2>>}

\* the reasons list with a GPU line for every GPU label, discrete or not
ReasonsAnyGpu(listing, gpuInfo) ==
    <<"CPU: " \o listing.cpu>>
    \o (IF "gpu" \in DOMAIN listing /\ listing.gpu # ""
        THEN <<"GPU: " \o listing.gpu>> ELSE <<>>)
    \o <<ToString(listing.ramGb) \o "GB RAM">>
    \o (IF "storageGb" \in DOMAIN listing /\ listing.storageGb # 0
        THEN << (IF listing.storageGb >= 1024
                 THEN FormatTb(listing.storageGb) \o "TB"
                 ELSE ToString(listing.storageGb) \o "GB")
                \o " "
                \o (IF "storageType" \in DOMAIN listing THEN listing.storageType ELSE "Storage") >>
        ELSE <<>>)

\* the reasons list with the kind "SSD" for a listing that has no storage kind
ReasonsDefaultSsd(listing, gpuInfo) ==
    <<"CPU: " \o listing.cpu>>
    \o (IF gpuInfo.isDiscrete /\ "gpu" \in DOMAIN listing /\ listing.gpu # ""
        THEN <<"GPU: " \o listing.gpu>> ELSE <<>>)
    \o <<ToString(listing.ramGb) \o "GB RAM">>
    \o (IF "storageGb" \in DOMAIN listing /\ listing.storageGb # 0
        THEN << (IF listing.storageGb >= 1024
                 THEN FormatTb(listing.storageGb) \o "TB"
                 ELSE ToString(listing.storageGb) \o "GB")
                \o " "
                \o (IF "storageType" \in DOMAIN listing THEN listing.storageType ELSE "SSD") >>
        ELSE <<>>)

\* the reasons list of one listing
Reasons(listing, gpuInfo) ==
    <<"CPU: " \o listing.cpu>>
    \o (IF gpuInfo.isDiscrete /\ "gpu" \in DOMAIN listing /\ listing.gpu # ""
        THEN <<"GPU: " \o listing.gpu>> ELSE <<>>)
    \o <<ToString(listing.ramGb) \o "GB RAM">>
    \o (IF "storageGb" \in DOMAIN listing /\ listing.storageGb # 0
        THEN << (IF listing.storageGb >= 1024
                 THEN FormatTb(listing.storageGb) \o "TB"
                 ELSE ToString(listing.storageGb) \o "GB")
                \o " "
                \o (IF "storageType" \in DOMAIN listing THEN listing.storageType ELSE "Storage") >>
        ELSE <<>>)

\* the callback of filtered.map
Recommendation(listing, budgetMin, budgetMax) ==
    LET cpuTier == inferCpuTier(listing.cpu)
        gpuInfo == inferGpuTier(Opt(listing, "gpu"))
        ramScore == inferRamScore(listing.ramGb)
        perf == Perf(cpuTier, gpuInfo.tier, ramScore)
        rangeMid == RangeMid(budgetMin, budgetMax)
        budgetFit == BudgetFitNum(listing.priceUsd, rangeMid)
    IN  [listing |-> listing,
         score |-> IF RoundsDownAtHalfway(cpuTier, gpuInfo.tier, ramScore, budgetFit, rangeMid)
                   THEN Score(perf, budgetFit, rangeMid) - 1
                   ELSE Score(perf, budgetFit, rangeMid),
         reasons |-> Reasons(listing, gpuInfo)]

\* the comparator of an ascending sort
CompareAscending(a, b) == a.score - b.score

\* the comparator of the sort: negative when a goes before b
Compare(a, b) == b.score - a.score

\* one insertion of a sort that puts a listing before the listings of its score
RECURSIVE InsertSortedTiesFirst(_, _)
InsertSortedTiesFirst(sorted, x) ==
    IF sorted = <<>> THEN <<x>>
    ELSE LET last == sorted[Len(sorted)]
         IN  IF Compare(x, last) <= 0
             THEN Append(InsertSortedTiesFirst(SubSeq(sorted, 1, Len(sorted) - 1), x), last)
             ELSE Append(sorted, x)

\* one insertion of the stable sort: x goes after every element it does not precede
RECURSIVE InsertSorted(_, _)
InsertSorted(sorted, x) ==
    IF sorted = <<>> THEN <<x>>
    ELSE LET last == sorted[Len(sorted)]
         IN  IF Compare(x, last) < 0
             THEN Append(InsertSorted(SubSeq(sorted, 1, Len(sorted) - 1), x), last)
             ELSE Append(sorted, x)

\* Array.prototype.sort with the comparator: a stable sort
RECURSIVE SortByScore(_)
SortByScore(s) ==
    IF s = <<>> THEN <<>>
    ELSE InsertSorted(SortByScore(SubSeq(s, 1, Len(s) - 1)), s[Len(s)])

\* slice(0, end + 1): one entry too many
SliceThrough(s, end) ==
    LET k == IF end + 1 < 0 THEN Max2(Len(s) + end + 1, 0) ELSE Min2(end + 1, Len(s))
    IN  SubSeq(s, 1, k)

\* Array.prototype.slice(0, end)
Slice(s, end) ==
    LET k == IF end < 0 THEN Max2(Len(s) + end, 0) ELSE Min2(end, Len(s))
    IN  SubSeq(s, 1, k)

\* the mapped array before the sort
Mapped(flt, p) ==
    LET range == budgetRangeToMinMax(p.budgetRange)
    IN  [i \in 1..Len(flt) |-> Recommendation(flt[i], range.min, range.max)]

recommendFromCandidates(cands, p, opts) ==
    Slice(SortByScore(Mapped(Filtered(cands, p, opts), p)), LimitOf(opts))


(***************************************************************************)
(* Data: the fallback candidates of the repository and the inputs the      *)
(* model draws from                                                        *)
(***************************************************************************)

MOCK_CANDIDATES == <<
    [id |-> "mock-1",
     title |-> "CyberPowerPC Gamer Xtreme VR Gaming PC (Intel Core i5, RTX 4060, 16GB RAM, 1TB NVMe SSD)",
     amazonUrl |-> "https://www.amazon.com/", priceUsd |-> 109900,
     cpu |-> "Intel Core i5", gpu |-> "NVIDIA GeForce RTX 4060", ramGb |-> 16,
     storageGb |-> 1024, storageType |-> "SSD", color |-> "black"],
    [id |-> "mock-2",
     title |-> "Skytech Gaming Chronos Mini (Ryzen 5, RTX 4060 Ti, 16GB RAM, 1TB SSD)",
     amazonUrl |-> "https://www.amazon.com/", priceUsd |-> 129900,
     cpu |-> "AMD Ryzen 5", gpu |-> "NVIDIA GeForce RTX 4060 Ti", ramGb |-> 16,
     storageGb |-> 1024, storageType |-> "SSD", color |-> "white"],
    [id |-> "mock-3",
     title |-> "iBUYPOWER Slate 8 Gaming Desktop (Intel Core i7, RTX 4070, 32GB RAM, 2TB NVMe SSD)",
     amazonUrl |-> "https://www.amazon.com/", priceUsd |-> 189900,
     cpu |-> "Intel Core i7", gpu |-> "NVIDIA GeForce RTX 4070", ramGb |-> 32,
     storageGb |-> 2048, storageType |-> "SSD", color |-> "black"],
    [id |-> "mock-4",
     title |-> "Dell Inspiron Desktop (Intel Core i5, 16GB RAM, 512GB SSD)",
     amazonUrl |-> "https://www.amazon.com/", priceUsd |-> 74900,
     cpu |-> "Intel Core i5", ramGb |-> 16,
     storageGb |-> 512, storageType |-> "SSD", color |-> "silver"],
    [id |-> "mock-5",
     title |-> "HP Pavilion Desktop (Intel Core i3, 8GB RAM, 256GB SSD)",
     amazonUrl |-> "https://www.amazon.com/", priceUsd |-> 49900,
     cpu |-> "Intel Core i3", ramGb |-> 8,
     storageGb |-> 256, storageType |-> "SSD", color |-> "black"] >>

\* the title of the end-to-end scenario (the title of mock-1)
CyberPowerTitle == MOCK_CANDIDATES[1].title

\* the title of the listing without a GPU (the title of mock-5)
PavilionTitle == MOCK_CANDIDATES[5].title

\* a raw product record of the upstream search
Raw(title, url, cents) == [title |-> title, url |-> url, price |-> [value |-> cents]]

\* raw records the upstream search may return
RawPool == {
    Raw(CyberPowerTitle, "https://www.amazon.com/dp/B01", 109900),
    Raw(PavilionTitle, "https://www.amazon.com/dp/B02", 49900),
    Raw("Skytech Shadow Gaming PC, AMD Ryzen 7, GeForce RTX 4070 Ti, 32GB DDR5 RAM, 2TB NVMe SSD",
        "https://www.amazon.com/dp/B03", 111888),
    Raw("iBUYPOWER Element Desktop Intel Core i7 GeForce GTX 1660 SUPER 16 GB DDR4",
        "https://www.amazon.com/dp/B04", 61600),
    Raw("Dell OptiPlex Tower Intel Core i5 8GB RAM 0TB HDD 512GB SSD",
        "https://www.amazon.com/dp/B05", 70000),
    Raw("Gaming Desktop PC GeForce RTX 4060 16GB RAM 1TB SSD",
        "https://www.amazon.com/dp/B06", 90000),
    Raw("Lenovo Desktop Intel Core i5 512GB SSD",
        "https://www.amazon.com/dp/B07", 90000),
    Raw("Acer Aspire Intel Core i3 0GB RAM 256GB SSD",
        "https://www.amazon.com/dp/B08", 65000),
    Raw(PavilionTitle, "", 49900),
    Raw(PavilionTitle, "https://www.amazon.com/dp/B10", 0),
    [title |-> PavilionTitle, url |-> "https://www.amazon.com/dp/B11"],
    [title |-> PavilionTitle, url |-> "https://www.amazon.com/dp/B12", price |-> [symbol |-> "$"]] }

\* listings a caller of recommendFromCandidates may pass
ListingPool == {
    MOCK_CANDIDATES[1], MOCK_CANDIDATES[4], MOCK_CANDIDATES[5],
    [id |-> "a", title |-> "no price", amazonUrl |-> "https://www.amazon.com/a",
     cpu |-> "Intel Core i5", ramGb |-> 16],
    [id |-> "b", title |-> "no url", amazonUrl |-> "", priceUsd |-> 80000,
     cpu |-> "Intel Core i5", ramGb |-> 16],
    [id |-> "c", title |-> "no cpu", amazonUrl |-> "https://www.amazon.com/c", priceUsd |-> 80000,
     cpu |-> "", ramGb |-> 16],
    [id |-> "d", title |-> "no ram", amazonUrl |-> "https://www.amazon.com/d", priceUsd |-> 80000,
     cpu |-> "Intel Core i5", ramGb |-> 0],
    [id |-> "e", title |-> "integrated graphics", amazonUrl |-> "https://www.amazon.com/e",
     priceUsd |-> 78400, cpu |-> "AMD Ryzen 5", gpu |-> "AMD Radeon Graphics", ramGb |-> 4,
     storageGb |-> 1536],
    [id |-> "f", title |-> "zero storage", amazonUrl |-> "https://www.amazon.com/f",
     priceUsd |-> 78401, cpu |-> "Apple M2 Pro", gpu |-> "Intel Arc A750", ramGb |-> 32,
     storageGb |-> 0, storageType |-> "Unknown"],
    [id |-> "g", title |-> "Dell Inspiron Desktop (Intel Core i5, 16GB RAM, 512GB SSD), renewed",
     amazonUrl |-> "https://www.amazon.com/g", priceUsd |-> 74900,
     cpu |-> "Intel Core i5", ramGb |-> 16, storageGb |-> 512, storageType |-> "SSD"] }

\* CPU labels of the five tiers, GPU labels of the six tiers, RAM sizes of the
\* four RAM scores and prices in cents, for the listings that are scored
CpuLabels == {"Intel Celeron N4020", "Intel Core i3", "AMD Ryzen 5", "Intel Core i7", "AMD Ryzen 9"}

GpuLabels == {"Intel UHD Graphics 770", "NVIDIA GeForce GTX 1650", "NVIDIA GeForce RTX 3060",
              "AMD Radeon RX 7600", "NVIDIA GeForce RTX 4070", "NVIDIA GeForce RTX 4090"}

RamSizes == {4, 8, 16, 32}

Prices == {35000, 61600, 84950, 124950, 180000, 180450, 400000}

\* a listing with the given CPU label, GPU label (<<>> is none), RAM size and price
ScoredListing(cpu, gpu, ramGb, cents) ==
    [id |-> "s", title |-> "scored", amazonUrl |-> "https://www.amazon.com/s",
     priceUsd |-> cents, cpu |-> cpu, ramGb |-> ramGb] @@ Prop("gpu", gpu)

ScorePool ==
    {ScoredListing(cpu, gpu, ramGb, cents) :
        cpu \in CpuLabels, gpu \in {<<>>} \cup {<<g>> : g \in GpuLabels},
        ramGb \in RamSizes, cents \in Prices}

\* the options a caller of recommendFromCandidates may pass; << >> is no options
OptionsPool == {
    << >>, [limit |-> 0], [limit |-> 1], [limit |-> 0 - 1],
    [limit |-> 2, budgetTolerancePct |-> 0], [budgetTolerancePct |-> 25] }

PrefsPool == [budgetRange : BudgetRanges, minSsdStorageTier : StorageTiers]

\* coerceBudget and coerceStorage of the results page: v is <<>> (undefined) or <<string>>
coerceBudget(v) ==
    IF v = <<"under700">> \/ v = <<"700-999">> \/ v = <<"1000-1499">> \/ v = <<"1500plus">>
    THEN v[1]
    ELSE "700-999"

coerceStorage(v) ==
    IF v = <<"256-512">> \/ v = <<"1tb">> \/ v = <<"2tb">> \/ v = <<"any">>
    THEN v[1]
    ELSE "1tb"

\* the values of the query parameters budget and storage of /results: absent, one
\* of the closed set, or another string
QueryBudgets == {<<>>, <<"cheap">>, <<"">>} \cup {<<b>> : b \in BudgetRanges}

QueryStorages == {<<>>, <<"4tb">>, <<"1TB">>} \cup {<<t>> : t \in StorageTiers}

\* the preferences the results page builds; its client posts them as the body
PagePrefs(budget, storage) ==
    [budgetRange |-> coerceBudget(budget), minSsdStorageTier |-> coerceStorage(storage)]

PageBodies == {PagePrefs(budget, storage) : budget \in QueryBudgets, storage \in QueryStorages}

\* bodies another client may post: the route reads the body without checking it
DirectBodies == {
    [budgetRange |-> "cheap", minSsdStorageTier |-> "1tb"],
    [minSsdStorageTier |-> "any"],
    [budgetRange |-> "1000-1499", minSsdStorageTier |-> "4tb"] }

\* the JSON bodies of the requests to POST /api/recommend
BodyPool == PageBodies \cup PrefsPool \cup DirectBodies

\* the longest upstream result list and the longest candidate list of a direct call
MaxResults == 2

MaxCandidates == 2

\* the sequences over S of length at most n
SeqsUpTo(S, n) == UNION {[1..k -> S] : k \in 0..n}

\* titles that spell RAM and storage in the ways the patterns of parseRamGb and
\* parseStorage tell apart
StorageTitles == {
    "PC Intel Core i7, 128GB DDR5 RAM, 512GB SSD",
    "PC Intel Core i5, 16GB RAM, 512GB SSD",
    "PC Intel Core i5, 16GB RAM, 512GB SSD + 1TB HDD",
    "PC Intel Core i5, 16GB RAM, 1.5TB HDD",
    "PC Intel Core i5, 16GB RAM, 2 TB NVMe",
    "PC Intel Core i5, 16GB RAM, fast SSD",
    "PC Intel Core i5, 16GB RAM, HDD",
    "PC Intel Core i5, 16GB RAM, 500GB",
    "PC Intel Core i5, 16GB RAM, 1000GB HDD",
    "PC Intel Core i5, 16GB RAM, 0.5TB HDDs",
    "PC Intel Core i5, 512GB SSD, 128GB RAM",
    "PC Intel Core i5, 64GB DDR4, 256GB SSD",
    "PC Intel Core i5, 16GB RAM, 12345GB SSD",
    "PC Intel Core i5, 256 GB RAM, 4TB HDD",
    "PC Intel Core i5, 100GB RAM",
    "PC Intel Core i5, 16GB RAM" }

\* the raw records with those titles
StorageRawPool == {Raw(title, "https://www.amazon.com/dp/B20", 84950) : title \in StorageTitles}

\* mapCanopyResultToListing on the records of the pools, evaluated once
ListingOf == [r \in RawPool \cup StorageRawPool |-> mapCanopyResultToListing(r)]

\* results.map(mapCanopyResultToListing).filter(Boolean)
RECURSIVE MapResults(_)
MapResults(res) ==
    IF res = <<>> THEN <<>>
    ELSE ListingOf[Head(res)] \o MapResults(Tail(res))

\* budgetRangeToMinMax(prefs.budgetRange): undefined also when prefs has no budgetRange
BudgetOf(p) ==
    IF "budgetRange" \in DOMAIN p THEN budgetRangeToMinMax(p.budgetRange) ELSE undefined

\* const { min, max } = ... of undefined raises a TypeError
DestructuringThrows(range) == DOMAIN range = {}

\* the argument of canopy.searchAmazon as the route builds it from the un-widened bounds
SearchParamsOf(range) ==
    [searchTerm |-> "gaming desktop computer PC", limit |-> 40]
    @@ Prop("minPrice", IF range.min > 0 THEN <<range.min>> ELSE <<>>)
    @@ Prop("maxPrice", IF range.max # Infinity THEN <<range.max>> ELSE <<>>)

(***************************************************************************)
(* The state machine: requests to POST /api/recommend and direct calls of  *)
(* recommendFromCandidates.  The handler runs without interruption up to   *)
(* its await of the upstream search and again from the settling of that    *)
(* call to the response.                                                   *)
(***************************************************************************)

\* the values of useState at the first render; the component is not mounted yet
InitialClient ==
    [mounted |-> FALSE, prefs |-> PagePrefs(<<>>, <<>>), effectPending |-> FALSE,
     loading |-> TRUE, error |-> <<>>, recommendations |-> <<>>, usedMockData |-> FALSE]

Init ==
    /\ pc = "idle"
    /\ caller = "none"
    /\ configured = FALSE
    /\ search = "none"
    /\ searchParams = <<>>
    /\ results = <<>>
    /\ candidates = <<>>
    /\ prefs = [budgetRange |-> "700-999", minSsdStorageTier |-> "1tb"]
    /\ options = <<>>
    /\ usedMockData = FALSE
    /\ filtered = <<>>
    /\ recs = <<>>
    /\ client = InitialClient
    /\ runs = <<>>
    /\ mockCandidates = MOCK_CANDIDATES
    /\ given = <<>>

\* a ranking that removes from its argument the listings its filters drop
ArgumentFilteredInPlace(cands, p, opts) == Filtered(cands, p, opts)

\* the argument array after the call: filter, map and slice return new arrays,
\* and sort orders the array that map returned, so nothing writes to the argument
ArgumentAfterCall(cands, p, opts) == cands

\* the call of recommendFromCandidates: it returns, or raises at its destructuring
Call(cands, p, opts) ==
    /\ UNCHANGED <<client, runs>>
    /\ given' = cands
    /\ prefs' = p
    /\ options' = opts
    /\ IF DestructuringThrows(BudgetOf(p))
       THEN /\ candidates' = cands
            /\ filtered' = <<>>
            /\ recs' = <<>>
            /\ pc' = "threw"
       ELSE /\ candidates' = ArgumentAfterCall(cands, p, opts)
            /\ filtered' = Filtered(cands, p, opts)
            /\ recs' = recommendFromCandidates(cands, p, opts)
            /\ pc' = "done"

\* POST without a client: the else branch, the ranking and the response
PostNotConfigured(body) ==
    /\ pc = "idle"
    /\ caller' = "route"
    /\ configured' = FALSE
    /\ usedMockData' = TRUE
    /\ UNCHANGED <<search, searchParams, results>>
    /\ Call(mockCandidates, body, [limit |-> 5])
    /\ mockCandidates' = candidates'

\* POST with a client: the handler calls the upstream search and awaits it
PostSearchCall(body) ==
    /\ pc = "idle"
    /\ ~DestructuringThrows(BudgetOf(body))
    /\ caller' = "route"
    /\ configured' = TRUE
    /\ prefs' = body
    /\ searchParams' = SearchParamsOf(BudgetOf(body))
    /\ search' = "pending"
    /\ pc' = "await"
    /\ UNCHANGED <<results, candidates, options, usedMockData, filtered, recs, client, runs,
                   mockCandidates, given>>

\* POST with a client: the destructuring inside the try raises before the search
\* is called, the catch block substitutes the fallback set, the ranking follows
PostParamsThrow(body) ==
    /\ pc = "idle"
    /\ DestructuringThrows(BudgetOf(body))
    /\ caller' = "route"
    /\ configured' = TRUE
    /\ usedMockData' = TRUE
    /\ UNCHANGED <<search, searchParams, results>>
    /\ Call(mockCandidates, body, [limit |-> 5])
    /\ mockCandidates' = candidates'

\* the upstream call settles: it resolves with records, or it rejects (fetch
\* raises), or it answers with a status that is not OK and searchAmazon raises.
\* Nothing bounds the time this takes: the fetch has no timeout or abort signal.
SearchSettles(outcome, res) ==
    /\ pc = "await"
    /\ search = "pending"
    /\ search' = outcome
    /\ results' = (IF outcome = "ok" THEN res ELSE <<>>)
    /\ UNCHANGED <<pc, caller, configured, searchParams, candidates, prefs, options,
                   usedMockData, filtered, recs, client, runs, mockCandidates, given>>

\* the handler resumes after a search that resolved
PostSearchOk ==
    /\ pc = "await"
    /\ search = "ok"
    /\ usedMockData' = FALSE
    /\ UNCHANGED <<caller, configured, search, searchParams, results, mockCandidates>>
    /\ Call(MapResults(results), prefs, [limit |-> 5])

\* a catch block that substitutes the fallback set without flagging it
PostFallbackUnflagged ==
    /\ pc = "await"
    /\ search \in {"threw", "notOk"}
    /\ usedMockData' = FALSE
    /\ UNCHANGED <<caller, configured, search, searchParams, results>>
    /\ Call(mockCandidates, prefs, [limit |-> 5])
    /\ mockCandidates' = candidates'

\* the handler resumes in its catch block after a search that failed
PostFallback ==
    /\ pc = "await"
    /\ search \in {"threw", "notOk"}
    /\ usedMockData' = TRUE
    /\ UNCHANGED <<caller, configured, search, searchParams, results>>
    /\ Call(mockCandidates, prefs, [limit |-> 5])
    /\ mockCandidates' = candidates'

\* a direct call of recommendFromCandidates
LibraryCall(cands, p, opts) ==
    /\ pc = "idle"
    /\ caller' = "library"
    /\ UNCHANGED <<configured, search, searchParams, results, usedMockData, mockCandidates>>
    /\ Call(cands, p, opts)

\* the response is sent, the caller returns or the exception leaves the handler:
\* nothing of the request is kept
Return ==
    /\ pc \in {"done", "threw"}
    /\ pc' = "idle"
    /\ caller' = "none"
    /\ configured' = FALSE
    /\ search' = "none"
    /\ searchParams' = <<>>
    /\ results' = <<>>
    /\ candidates' = <<>>
    /\ prefs' = [budgetRange |-> "700-999", minSsdStorageTier |-> "1tb"]
    /\ options' = <<>>
    /\ usedMockData' = FALSE
    /\ filtered' = <<>>
    /\ recs' = <<>>
    /\ given' = <<>>
    /\ UNCHANGED <<client, runs, mockCandidates>>

Next ==
    \/ Return
    \/ \E body \in BodyPool : PostNotConfigured(body)
    \/ \E body \in BodyPool : PostSearchCall(body)
    \/ \E body \in BodyPool : PostParamsThrow(body)
    \/ \E res \in SeqsUpTo(RawPool, MaxResults) : SearchSettles("ok", res)
    \/ \E outcome \in {"threw", "notOk"} : SearchSettles(outcome, <<>>)
    \/ PostSearchOk
    \/ PostFallback
    \/ \E p \in PrefsPool, cands \in SeqsUpTo(ListingPool, MaxCandidates), opts \in OptionsPool :
           LibraryCall(cands, p, opts)

Spec == Init /\ [][Next]_vars

\* the scoring of one listing: a direct call with a single candidate, no storage
\* preference and the default options
ScoreCall(listing, budgetRange) ==
    LibraryCall(<<listing>>, [budgetRange |-> budgetRange, minSsdStorageTier |-> "any"], <<>>)

ScoreNext ==
    \/ Return
    \/ \E listing \in ScorePool, budgetRange \in BudgetRanges : ScoreCall(listing, budgetRange)

ScoreSpec == Init /\ [][ScoreNext]_vars

(***************************************************************************)
(* ResultsClient: components/ResultsClient.tsx.  A render with new prefs   *)
(* is committed first; the effect (the cleanup of the previous run, then   *)
(* run()) follows as a step of its own.  run() goes without interruption   *)
(* up to `await fetch`, from there to `await res.json()`, and from there   *)
(* to its end.                                                             *)
(***************************************************************************)

\* the most runs of the effect in one behaviour
MaxRuns == 3

\* the state of the route the component talks to is not part of its model
routeVars == <<pc, caller, configured, search, searchParams, results, candidates, prefs,
               options, usedMockData, filtered, recs, mockCandidates, given>>

\* the prefs the results page passes to the component
ClientPrefsPool ==
    {PagePrefs(<<"under700">>, <<"any">>), PagePrefs(<<>>, <<>>), PagePrefs(<<"1500plus">>, <<"2tb">>)}

\* the bodies POST /api/recommend may answer a request with: the ranking of the
\* fallback set, or a live search with no eligible listing
ResponsesFor ==
    [p \in ClientPrefsPool |->
        {[recommendations |-> recommendFromCandidates(MOCK_CANDIDATES, p, [limit |-> 5]),
          usedMockData |-> TRUE],
         [recommendations |-> <<>>, usedMockData |-> FALSE]}]

\* the cleanup of the latest run of the effect: cancelled = true
CancelLast(rs) == IF rs = <<>> THEN rs ELSE [rs EXCEPT ![Len(rs)].cancelled = TRUE]

\* run() after `await res.json()` without the test of `cancelled`
AfterJsonUnguarded(c, cancelled, data) ==
    [c EXCEPT !.recommendations = data.recommendations,
              !.usedMockData = data.usedMockData,
              !.loading = FALSE]

\* run() after `await res.json()` has resolved with data
AfterJson(c, cancelled, data) ==
    IF cancelled THEN c
    ELSE [c EXCEPT !.recommendations = data.recommendations,
                   !.usedMockData = data.usedMockData,
                   !.loading = FALSE]

\* run() after an exception: the catch block and the finally block
AfterError(c, cancelled, message) ==
    IF cancelled THEN c
    ELSE [c EXCEPT !.error = <<message>>, !.loading = FALSE]

\* the page renders the component for the first time
Mount(p) ==
    /\ ~client.mounted
    /\ Len(runs) < MaxRuns
    /\ client' = [InitialClient EXCEPT !.mounted = TRUE, !.prefs = p, !.effectPending = TRUE]
    /\ UNCHANGED runs
    /\ UNCHANGED routeVars

\* a render with a new prefs object is committed; the state is kept
PrefsChange(p) ==
    /\ client.mounted
    /\ ~client.effectPending
    /\ Len(runs) < MaxRuns
    /\ client' = [client EXCEPT !.prefs = p, !.effectPending = TRUE]
    /\ UNCHANGED runs
    /\ UNCHANGED routeVars

\* the effect: the cleanup of the previous run, then run() up to `await fetch`
EffectRun ==
    /\ client.mounted
    /\ client.effectPending
    /\ runs' = Append(CancelLast(runs),
                      [prefs |-> client.prefs, cancelled |-> FALSE, at |-> "fetch",
                       response |-> <<>>])
    /\ client' = [client EXCEPT !.loading = TRUE, !.error = <<>>, !.effectPending = FALSE]
    /\ UNCHANGED routeVars

\* the component is removed: the cleanup of the latest run
Unmount ==
    /\ client.mounted
    /\ client' = [client EXCEPT !.mounted = FALSE, !.effectPending = FALSE]
    /\ runs' = CancelLast(runs)
    /\ UNCHANGED routeVars

\* the fetch of a run settles: a response that is ok, one that is not, or a rejection
FetchSettles(r, outcome) ==
    /\ runs[r].at = "fetch"
    /\ IF outcome = "ok"
       THEN /\ runs' = [runs EXCEPT ![r].at = "json"]
            /\ UNCHANGED client
       ELSE /\ runs' = [runs EXCEPT ![r].at = "ended"]
            /\ client' = AfterError(client, runs[r].cancelled,
                                    IF outcome = "notOk" THEN "Request failed: 500"
                                    ELSE "Failed to fetch")
    /\ UNCHANGED routeVars

\* res.json() of a run resolves with the body of the response
JsonResolves(r, data) ==
    /\ runs[r].at = "json"
    /\ runs' = [runs EXCEPT ![r].at = "ended", ![r].response = <<data>>]
    /\ client' = AfterJson(client, runs[r].cancelled, data)
    /\ UNCHANGED routeVars

\* res.json() of a run rejects: the body is not JSON
JsonRejects(r) ==
    /\ runs[r].at = "json"
    /\ runs' = [runs EXCEPT ![r].at = "ended"]
    /\ client' = AfterError(client, runs[r].cancelled, "Unexpected end of JSON input")
    /\ UNCHANGED routeVars

ClientNext ==
    \/ \E p \in ClientPrefsPool : Mount(p)
    \/ \E p \in ClientPrefsPool : PrefsChange(p)
    \/ EffectRun
    \/ Unmount
    \/ \E r \in DOMAIN runs, outcome \in {"ok", "notOk", "rejected"} : FetchSettles(r, outcome)
    \/ \E r \in DOMAIN runs : \E data \in ResponsesFor[runs[r].prefs] : JsonResolves(r, data)
    \/ \E r \in DOMAIN runs : JsonRejects(r)

ClientSpec == Init /\ [][ClientNext]_vars

\* the requests of the configured route whose search returns one record of
\* StorageRawPool
ExtractNext ==
    \/ Return
    \/ \E budgetRange \in BudgetRanges :
           PostSearchCall([budgetRange |-> budgetRange, minSsdStorageTier |-> "any"])
    \/ \E raw \in StorageRawPool : SearchSettles("ok", <<raw>>)
    \/ PostSearchOk

ExtractSpec == Init /\ [][ExtractNext]_vars

\* model numbers of the four GPU families, at and next to every threshold
RtxModels == {2060, 3050, 3059, 3060, 3061, 4059, 4060, 4069, 4070, 4079, 4080, 4081, 4090, 5090}

GtxModels == {1050, 1650, 1659, 1660, 1661, 1080}

RxModels == {5700, 6599, 6600, 6601, 7599, 7600, 7799, 7800, 7899, 7900, 7901}

ArcModels == {310, 380, 749, 750, 751, 769, 770, 771}

\* the labels parseGpu gives to the models, and the labels of integrated graphics
RtxLabel(n) == "NVIDIA GeForce RTX " \o ToString(n)

GtxLabel(n) == "NVIDIA GeForce GTX " \o ToString(n)

RxLabel(n) == "AMD Radeon RX " \o ToString(n)

ArcLabel(n) == "Intel Arc A" \o ToString(n)

TierGpuLabels ==
    {RtxLabel(n) : n \in RtxModels} \cup {GtxLabel(n) : n \in GtxModels}
    \cup {RxLabel(n) : n \in RxModels} \cup {ArcLabel(n) : n \in ArcModels}
    \cup {"Intel UHD Graphics 770", "AMD Radeon Graphics"}

\* the CPU names of the three patterns of parseCpu as a title spells them
CpuNames ==
    {"Intel Core i" \o d : d \in {"3", "5", "7", "9"}}
    \cup {"AMD Ryzen " \o d : d \in {"3", "5", "7", "9"}}
    \cup {"Apple M" \o d \o sfx : d \in {"0", "1", "2", "9"}, sfx \in {"", " Pro", " Max"}}
    \cup {"INTEL CORE I9", "Amd  Ryzen 7"}

\* a title that names the CPU
CpuTitle(name) == "Desktop PC (" \o name \o ", 16GB RAM)"

\* the CPU labels the extractor produces from those titles
TierCpuLabels == {parseCpu(CpuTitle(name))[1] : name \in CpuNames}

\* the listings whose tiers are inferred
TierPool ==
    {ScoredListing(cpu, gpu, 16, 84950) :
        cpu \in TierCpuLabels, gpu \in {<<>>} \cup {<<g>> : g \in TierGpuLabels}}

\* the ranking of one listing of the pool, its price in the middle of the budget
TierCall(listing) ==
    LibraryCall(<<listing>>, [budgetRange |-> "700-999", minSsdStorageTier |-> "any"], <<>>)

TierNext ==
    \/ Return
    \/ \E listing \in TierPool : TierCall(listing)

TierSpec == Init /\ [][TierNext]_vars

(***************************************************************************)
(* The budget filter over the whole price axis: one listing, every budget  *)
(* range, the default tolerance and a tolerance of 0                       *)
(***************************************************************************)
CoverTolerances == {0, 12}

\* the ends of the budget intervals, in cents, without and with the tolerance
CoverEnds ==
    UNION {{BudgetMinTol(budgetRangeToMinMax(r).min, t),
            BudgetMaxTol(budgetRangeToMinMax(r).max, t)} :
           r \in BudgetRanges, t \in CoverTolerances} \ {Infinity}

\* positive prices in cents: each end and the cent on either side of it, the
\* smallest price, prices between 999 and 1000 and between 1499 and 1500 dollars
\* and a price above every finite end
CoverPrices ==
    {c \in UNION {{e - 1, e, e + 1} : e \in CoverEnds} : c > 0}
        \cup {1, 99950, 149950, 500000}

CoverPool == {ScoredListing("Intel Core i7", <<>>, 16, cents) : cents \in CoverPrices}

CoverOptions == {<<>>, [budgetTolerancePct |-> 0]}

CoverCall(listing, budgetRange, opts) ==
    LibraryCall(<<listing>>, [budgetRange |-> budgetRange, minSsdStorageTier |-> "any"], opts)

CoverNext ==
    \/ Return
    \/ \E listing \in CoverPool, budgetRange \in BudgetRanges, opts \in CoverOptions :
           CoverCall(listing, budgetRange, opts)

CoverSpec == Init /\ [][CoverNext]_vars


(***************************************************************************)
(* Vocabulary of the properties                                            *)
(***************************************************************************)

\* the listing is the listing of some entry of the sequence of recommendations
InOutput(l, rs) == \E j \in 1..Len(rs) : rs[j].listing = l

\* the listing is an element of the sequence
InSeq(l, sq) == \E j \in 1..Len(sq) : sq[j] = l

\* price, URL, CPU and RAM are all there
HasMandatoryFields(l) ==
    /\ "priceUsd" \in DOMAIN l /\ l.priceUsd > 0
    /\ l.amazonUrl # ""
    /\ l.cpu # ""
    /\ "ramGb" \in DOMAIN l /\ l.ramGb > 0

\* the bounds of the budget interval of the request, in dollars
PrefMin == budgetRangeToMinMax(prefs.budgetRange).min

PrefMax == budgetRangeToMinMax(prefs.budgetRange).max

\* the ends of the interval widened by the tolerance of the request, in cents
WidenedMin == IF PrefMin = 0 THEN 0 ELSE PrefMin * (100 - TolerancePctOf(options))

WidenedMax == IF PrefMax = Infinity THEN Infinity ELSE PrefMax * (100 + TolerancePctOf(options))

\* the price is in the widened interval, ends included
InWidened(l) == WidenedMin <= l.priceUsd /\ l.priceUsd <= WidenedMax

\* the storage preference of the request has a minimum
HasStorageMin == storageTierToMinGb(prefs.minSsdStorageTier) # <<>>

RequiredGb == storageTierToMinGb(prefs.minSsdStorageTier)[1]

\* the three conditions of eligibility, for the request of the current state
IsEligible(l) ==
    /\ HasRequiredData(l)
    /\ InWidened(l)
    /\ HasEnoughStorage(l, storageTierToMinGb(prefs.minSsdStorageTier))

\* how many candidates are eligible
EligibleCount == Cardinality({i \in 1..Len(candidates) : IsEligible(candidates[i])})

\* the score the request gives to a listing
ScoreOf(l) == Recommendation(l, PrefMin, PrefMax).score

\* some reason line of the recommendation is a GPU line
HasGpuLine(rec) ==
    \E k \in 1..Len(rec.reasons) :
        Len(rec.reasons[k]) >= 5 /\ SubSeq(rec.reasons[k], 1, 5) = "GPU: "

(***************************************************************************)
(* C1: the output is in non-increasing score order, and whenever an        *)
(* eligible listing A scores strictly higher than a listing B of the       *)
(* output, A is in the output before B: truncation never keeps a           *)
(* lower-scored listing while dropping a higher-scored one.                *)
(***************************************************************************)
C1_RankedByScore ==
    pc = "done" =>
        /\ \A i, j \in 1..Len(recs) : i < j => recs[i].score >= recs[j].score
        /\ \A a \in 1..Len(candidates), j \in 1..Len(recs) :
              (IsEligible(candidates[a]) /\ ScoreOf(candidates[a]) > recs[j].score)
              => \E k \in 1..(j - 1) : recs[k].listing = candidates[a]

\* two eligible listings arrive in ascending score order and the limit keeps one
C1_Witness ==
    /\ pc = "done"
    /\ Len(filtered) >= 2
    /\ Len(recs) = 1
    /\ ScoreOf(filtered[1]) < ScoreOf(filtered[2])
    /\ recs[1].listing = filtered[2]

(***************************************************************************)
(* C2 as stated: for any integer limit, the output has at most limit       *)
(* entries and at most as many entries as there are eligible listings.     *)
(***************************************************************************)
C2_Original ==
    pc = "done" => Len(recs) <= LimitOf(options) /\ Len(recs) <= EligibleCount

(***************************************************************************)
(* C2 amended: the output never has more entries than there are eligible   *)
(* listings, and for a limit that is not negative (default 5) it has at    *)
(* most limit entries.                                                     *)
(***************************************************************************)
C2_LengthBounded ==
    pc = "done" =>
        /\ Len(recs) <= EligibleCount
        /\ (LimitOf(options) >= 0 => Len(recs) <= LimitOf(options))

\* more eligible listings than the limit, and the output is cut to the limit
C2_Witness ==
    /\ pc = "done"
    /\ LimitOf(options) >= 1
    /\ EligibleCount > LimitOf(options)
    /\ Len(recs) = LimitOf(options)

(***************************************************************************)
(* C3: a listing without a price (absent, not finite or <= 0), a URL, a    *)
(* CPU or a RAM size never appears in the output, whether the route's      *)
(* mapping or the mandatory-field check drops it.                          *)
(***************************************************************************)
\* the raw records of the pool that lack a price, a URL, CPU text or RAM text
RawMissingData ==
    {r \in RawPool :
        \/ "price" \notin DOMAIN r
        \/ "value" \notin DOMAIN r.price
        \/ r.price.value <= 0
        \/ r.url = ""
        \/ parseCpu(r.title) = <<>>
        \/ parseRamGb(r.title) = <<>>
        \/ parseRamGb(r.title)[1] <= 0}

C3_NoIncompleteListing ==
    pc = "done" =>
        /\ \A j \in 1..Len(recs) : HasMandatoryFields(recs[j].listing)
        /\ \A i \in 1..Len(candidates) :
              ~HasMandatoryFields(candidates[i]) => ~InOutput(candidates[i], recs)
        /\ \A i \in 1..Len(results) :
              results[i] \in RawMissingData
              => \A j \in 1..Len(recs) : recs[j].listing.id # results[i].url

\* one raw record is dropped by the mapping, another becomes a candidate that
\* the mandatory-field check rejects
C3_Witness ==
    /\ pc = "done"
    /\ \E i \in 1..Len(results) : results[i] \in RawMissingData /\ ListingOf[results[i]] = <<>>
    /\ \E i \in 1..Len(candidates) :
          /\ ~HasMandatoryFields(candidates[i])
          /\ "priceUsd" \in DOMAIN candidates[i]
          /\ InWidened(candidates[i])


(***************************************************************************)
(* C4: a listing with all mandatory fields, a price strictly inside the    *)
(* widened budget interval and storage that is unknown or at least the     *)
(* required minimum is in the filtered set, whatever its score; it is in   *)
(* the output whenever the number of eligible listings is at most limit.   *)
(***************************************************************************)
C4_Antecedent(l) ==
    /\ HasMandatoryFields(l)
    /\ WidenedMin < l.priceUsd /\ l.priceUsd < WidenedMax
    /\ \/ ~HasStorageMin
       \/ "storageGb" \notin DOMAIN l
       \/ l.storageGb >= RequiredGb

C4_Membership ==
    pc = "done" =>
        \A i \in 1..Len(candidates) :
            C4_Antecedent(candidates[i])
            => /\ InSeq(candidates[i], filtered)
               /\ (EligibleCount <= LimitOf(options) => InOutput(candidates[i], recs))

\* a listing priced in the tolerance band above the interval is kept and returned
C4_Witness ==
    /\ pc = "done"
    /\ \E i \in 1..Len(candidates) :
          /\ C4_Antecedent(candidates[i])
          /\ PrefMax # Infinity /\ candidates[i].priceUsd > PrefMax * 100
          /\ HasStorageMin
          /\ InOutput(candidates[i], recs)

(***************************************************************************)
(* C5: the budget filter widens the interval by the tolerance (default     *)
(* 0.12): min * (1 - tol), 0 staying 0, and max * (1 + tol), unbounded     *)
(* staying unbounded; a listing passes iff widenedMin <= price <=          *)
(* widenedMax, ends included; for "700-999" and the default tolerance      *)
(* exactly the prices in [616, 1118.88].                                   *)
(***************************************************************************)
\* the other two filters let the listing through: the budget filter decides
C5_OtherFiltersPass(l) ==
    /\ HasMandatoryFields(l)
    /\ \/ ~HasStorageMin
       \/ "storageGb" \notin DOMAIN l
       \/ l.storageGb = 0
       \/ l.storageGb >= RequiredGb

C5_WidenedBudget ==
    pc = "done" =>
        \A i \in 1..Len(candidates) :
            C5_OtherFiltersPass(candidates[i])
            => /\ InSeq(candidates[i], filtered) <=> InWidened(candidates[i])
               /\ (prefs.budgetRange = "700-999" /\ "budgetTolerancePct" \notin DOMAIN options)
                  => (InSeq(candidates[i], filtered)
                      <=> (61600 <= candidates[i].priceUsd /\ candidates[i].priceUsd <= 111888))

\* listings priced exactly at both ends of the widened interval pass
C5_Witness ==
    /\ pc = "done"
    /\ prefs.budgetRange = "700-999"
    /\ "budgetTolerancePct" \notin DOMAIN options
    /\ \E i \in 1..Len(filtered) : filtered[i].priceUsd = 61600
    /\ \E i \in 1..Len(filtered) : filtered[i].priceUsd = 111888

(***************************************************************************)
(* C6 as stated: when the storage preference has a minimum and the         *)
(* listing's storage size is present (any extracted value, 0 included),    *)
(* the listing passes the storage filter iff its storageGb is at least     *)
(* the required minimum.                                                   *)
(***************************************************************************)
C6_Original ==
    pc = "done" =>
        \A i \in 1..Len(candidates) :
            (/\ HasStorageMin
             /\ HasMandatoryFields(candidates[i])
             /\ InWidened(candidates[i])
             /\ "storageGb" \in DOMAIN candidates[i])
            => (InSeq(candidates[i], filtered) <=> candidates[i].storageGb >= RequiredGb)

(***************************************************************************)
(* C7: the storage filter is permissive: with tier "any" every listing     *)
(* passes, and with a tier that has a minimum a listing whose storage      *)
(* size is absent passes whatever the minimum.                             *)
(***************************************************************************)
C7_PermissiveStorage ==
    pc = "done" =>
        \A i \in 1..Len(candidates) :
            (/\ HasMandatoryFields(candidates[i])
             /\ InWidened(candidates[i])
             /\ (~HasStorageMin \/ "storageGb" \notin DOMAIN candidates[i]))
            => InSeq(candidates[i], filtered)

\* a listing without a storage size is returned to a request for 2 TB
C7_Witness ==
    /\ pc = "done"
    /\ prefs.minSsdStorageTier = "2tb"
    /\ \E j \in 1..Len(recs) : "storageGb" \notin DOMAIN recs[j].listing

(***************************************************************************)
(* C9 as stated: the raw listing titled "CyberPowerPC Gamer Xtreme VR      *)
(* Gaming PC (Intel Core i5, RTX 4060, 16GB RAM, 1TB NVMe SSD)" at price   *)
(* 1099, run through title extraction and the ranking with budget          *)
(* "700-999", tolerance 12% and a storage tier it satisfies, passes the    *)
(* budget filter, gets CPU tier 3, GPU tier 3 and RAM score 2 (performance *)
(* 2.8) and is in the output with the reasons "CPU: Intel Core i5",        *)
(* "GPU: NVIDIA GeForce RTX 4060", "16GB RAM", "1TB SSD".                  *)
(***************************************************************************)
C9_Scenario(r) ==
    /\ r.title = CyberPowerTitle
    /\ "price" \in DOMAIN r /\ "value" \in DOMAIN r.price /\ r.price.value = 109900
    /\ prefs.budgetRange = "700-999"
    /\ TolerancePctOf(options) = 12
    /\ prefs.minSsdStorageTier \in {"256-512", "1tb", "any"}

C9_Original ==
    pc = "done" =>
        \A i \in 1..Len(results) :
            C9_Scenario(results[i])
            => \E j \in 1..Len(recs) :
                  /\ recs[j].listing.id = results[i].url
                  /\ recs[j].listing.priceUsd <= 111888
                  /\ inferCpuTier(recs[j].listing.cpu) = 3
                  /\ inferGpuTier(Opt(recs[j].listing, "gpu")).tier = 3
                  /\ inferRamScore(recs[j].listing.ramGb) = 2
                  /\ Perf(3, inferGpuTier(Opt(recs[j].listing, "gpu")).tier, 2) = 28
                  /\ recs[j].reasons = <<"CPU: Intel Core i5", "GPU: NVIDIA GeForce RTX 4060",
                                         "16GB RAM", "1TB SSD">>

(***************************************************************************)
(* C10: the reasons of a recommendation contain the line "GPU: {label}"    *)
(* iff the listing has a GPU label and inferGpuTier judges it discrete; a  *)
(* listing without a GPU, such as "HP Pavilion Desktop (Intel Core i3,     *)
(* 8GB RAM, 256GB SSD)", gets GPU tier 0, not discrete, and no GPU line.   *)
(***************************************************************************)
C10_GpuLine ==
    pc = "done" =>
        \A j \in 1..Len(recs) :
            LET l == recs[j].listing
                label == Opt(l, "gpu")
                info == inferGpuTier(label)
            IN  /\ HasGpuLine(recs[j]) <=> (label # <<>> /\ label # <<"">> /\ info.isDiscrete)
                /\ HasGpuLine(recs[j]) => InSeq("GPU: " \o l.gpu, recs[j].reasons)
                /\ label = <<>> => (info.tier = 0 /\ ~info.isDiscrete /\ ~HasGpuLine(recs[j]))

\* the HP Pavilion listing is returned without a GPU line, next to a listing with one
C10_Witness ==
    /\ pc = "done"
    /\ \E j \in 1..Len(recs) :
          /\ recs[j].listing.title = PavilionTitle
          /\ "gpu" \notin DOMAIN recs[j].listing
          /\ ~HasGpuLine(recs[j])
    /\ \E j \in 1..Len(recs) : HasGpuLine(recs[j])


(***************************************************************************)
(* C11: in a response of POST /api/recommend usedMockData is true, and the *)
(* candidate list is MOCK_CANDIDATES, iff the Canopy client is not         *)
(* configured or the upstream search failed (it raised or answered with a  *)
(* status that is not OK); after a search that succeeded every candidate   *)
(* comes from an upstream record and usedMockData is false, even if no     *)
(* record survives the parsing.                                            *)
(***************************************************************************)
\* the route has sent its response
Responded == pc = "done" /\ caller = "route"

SearchFailed == search \in {"threw", "notOk"}

\* the candidate is what the mapping makes of some record of the upstream results
FromUpstream(c) ==
    \E i \in 1..Len(results) :
        /\ "price" \in DOMAIN results[i] /\ "value" \in DOMAIN results[i].price
        /\ c.id = results[i].url
        /\ c.title = results[i].title
        /\ c.priceUsd = results[i].price.value

C11_FallbackFlag ==
    Responded =>
        /\ usedMockData <=> (~configured \/ SearchFailed)
        /\ (candidates = MOCK_CANDIDATES) <=> (~configured \/ SearchFailed)
        /\ (configured /\ ~SearchFailed)
           => /\ search = "ok"
              /\ Len(candidates) <= Len(results)
              /\ \A i \in 1..Len(candidates) : FromUpstream(candidates[i])

\* the search succeeds with records of which none survives the parsing: the
\* response has no recommendation and is not flagged
C11_Witness ==
    /\ Responded
    /\ configured /\ search = "ok"
    /\ results # <<>>
    /\ candidates = <<>>
    /\ ~usedMockData

(***************************************************************************)
(* C12: recommendFromCandidates never raises for a candidate list and      *)
(* preferences from the closed sets; an empty candidate list gives an      *)
(* empty recommendation list, and so does a list of which every candidate  *)
(* is filtered out.                                                        *)
(***************************************************************************)
\* recommendFromCandidates has been called and has returned or raised
CallEnded == pc \in {"done", "threw"}

C12_NeverRaises ==
    (CallEnded /\ prefs \in PrefsPool) =>
        /\ pc = "done"
        /\ candidates = <<>> => recs = <<>>
        /\ EligibleCount = 0 => recs = <<>>

\* two candidates, both filtered out: the call returns the empty list
C12_Witness ==
    /\ pc = "done"
    /\ caller = "library"
    /\ Len(candidates) = 2
    /\ EligibleCount = 0
    /\ recs = <<>>

(***************************************************************************)
(* C13 as stated: the score of every recommendation lies in the range 0 to *)
(* 100, for every eligible listing (CPU tier 1-5, GPU tier 0-5, RAM score  *)
(* 0-3, any price) and every budget range.  Scores are in tenths.          *)
(***************************************************************************)
C13_Original ==
    pc = "done" => \A j \in 1..Len(recs) : 0 <= recs[j].score /\ recs[j].score <= 1000

(***************************************************************************)
(* C20: the score of every eligible listing is (20 * (0.4 * cpuTier +      *)
(* 0.4 * gpuTier + 0.2 * ramScore) + 20 * budgetFit) rounded to one        *)
(* decimal, where ramScore is 3 for RAM >= 32 GB, 2 for >= 16, 1 for >= 8, *)
(* else 0, and budgetFit = 1 - clamp(|price - mid| / mid, 0, 1) with mid   *)
(* the midpoint of the un-widened interval, or min * 1.2 when it has no    *)
(* upper end; budgetFit is within [0, 1].  Rounded to one decimal: the     *)
(* score, in tenths, is an integer at most one half away from the value.   *)
(***************************************************************************)
\* the RAM score as the claim gives it
C20_RamScore(ramGb) == IF ramGb >= 32 THEN 3 ELSE IF ramGb >= 16 THEN 2 ELSE IF ramGb >= 8 THEN 1 ELSE 0

\* the midpoint of the request's interval, in cents
C20_Mid == IF PrefMax = Infinity THEN PrefMin * 120 ELSE ((PrefMin + PrefMax) * 100) \div 2

\* budgetFit * mid, for a price in cents
C20_FitTimesMid(cents) ==
    LET dev == IF cents >= C20_Mid THEN cents - C20_Mid ELSE C20_Mid - cents
    IN  IF C20_Mid <= 0 THEN 0
        ELSE IF dev >= C20_Mid THEN 0
        ELSE C20_Mid - dev

\* ten times the value that is rounded, times 2 * mid
C20_TwentyMidTimesValue(l) ==
    40 * C20_Mid * (4 * inferCpuTier(l.cpu) + 4 * inferGpuTier(Opt(l, "gpu")).tier
                    + 2 * C20_RamScore(l.ramGb))
    + 400 * C20_FitTimesMid(l.priceUsd)

C14_Original ==
    /\ \A b \in QueryBudgets :
          coerceBudget(b) = (IF b # <<>> /\ b[1] \in BudgetRanges THEN b[1] ELSE "700-999")
    /\ \A t \in QueryStorages :
          coerceStorage(t) = (IF t # <<>> /\ t[1] \in StorageTiers THEN t[1] ELSE "1tb")
    /\ CallEnded =>
          /\ "budgetRange" \in DOMAIN prefs
          /\ prefs.budgetRange \in BudgetRanges
          /\ "minSsdStorageTier" \in DOMAIN prefs
          /\ prefs.minSsdStorageTier \in StorageTiers

(***************************************************************************)
(* C15 as stated: the upstream search is one asynchronous call with a      *)
(* timeout and a fallback path: every request to POST /api/recommend       *)
(* eventually gets its response, with the fallback set after any upstream  *)
(* failure, also when the search never completes.  A request whose search  *)
(* never completes gets a response only if the handler can leave its await *)
(* by a step of its own, a timeout, while the search is still pending.     *)
(***************************************************************************)
\* a step by which the handler leaves its await
HandlerStep == PostSearchOk \/ PostFallback

C15_Original ==
    (caller = "route" /\ pc = "await" /\ search = "pending") => ENABLED HandlerStep

(***************************************************************************)
(* C16: the ranking is stable.  The eligible listings are kept in the      *)
(* order of the candidate list; in the output a listing comes after the    *)
(* eligible listings that score higher and after those of its own score    *)
(* that precede it in the input, and before all others; the output is the  *)
(* beginning of that ordering, min(limit, eligible count) entries long     *)
(* for a limit that is not negative.                                       *)
(***************************************************************************)
\* how many of the first a candidates are eligible
EligibleUpTo(a) == Cardinality({b \in 1..a : IsEligible(candidates[b])})

\* the scores of the eligible listings, in input order
FilteredScores == [i \in 1..Len(filtered) |-> ScoreOf(filtered[i])]

\* the place of the i-th eligible listing in the stable descending order
StableRank(sc, i) ==
    1 + Cardinality({k \in DOMAIN sc : sc[k] > sc[i] \/ (sc[k] = sc[i] /\ k < i)})

C16_StableRanking ==
    pc = "done" =>
        LET sc == FilteredScores
        IN  /\ Len(filtered) = EligibleCount
            /\ \A a \in 1..Len(candidates) :
                  IsEligible(candidates[a]) => filtered[EligibleUpTo(a)] = candidates[a]
            /\ Len(recs) <= Len(filtered)
            /\ LimitOf(options) >= 0 => Len(recs) = Min2(LimitOf(options), Len(filtered))
            /\ \A i \in 1..Len(filtered) :
                  StableRank(sc, i) <= Len(recs)
                  => /\ recs[StableRank(sc, i)].listing = filtered[i]
                     /\ recs[StableRank(sc, i)].score = sc[i]

\* two different listings of one score are returned one after the other, in the
\* order they have in the input
C16_Witness ==
    /\ pc = "done"
    /\ Len(recs) >= 2
    /\ \E i, k \in 1..Len(filtered), j \in 1..(Len(recs) - 1) :
          /\ i < k
          /\ filtered[i] # filtered[k]
          /\ recs[j].listing = filtered[i]
          /\ recs[j + 1].listing = filtered[k]
          /\ recs[j].score = recs[j + 1].score

(***************************************************************************)
(* C17: the reasons of a recommendation are, in this order, "CPU: {cpu}",  *)
(* possibly "GPU: {gpu}", "{ramGb}GB RAM", and, only for a listing whose   *)
(* storage size is known, "{size} {kind}": the size is storageGb / 1024    *)
(* followed by TB from 1024 GB on (1536 gives "1.5TB") and storageGb       *)
(* followed by GB below, the kind is the storage kind of the listing or    *)
(* the word "Storage" when it has none.  The list has 2 to 4 entries.      *)
(***************************************************************************)
\* the size as the reasons show it
C17_SizeLabel(storageGb) ==
    CASE storageGb = 1024 -> "1TB"
      [] storageGb = 1536 -> "1.5TB"
      [] storageGb = 2048 -> "2TB"
      [] OTHER -> IF storageGb >= 1024 THEN FormatTb(storageGb) \o "TB"
                  ELSE ToString(storageGb) \o "GB"

\* the storage line of a listing, or no line
C17_StorageLines(l) ==
    IF "storageGb" \in DOMAIN l /\ l.storageGb > 0
    THEN << C17_SizeLabel(l.storageGb) \o " "
            \o (IF "storageType" \in DOMAIN l THEN l.storageType ELSE "Storage") >>
    ELSE << >>

\* no GPU line, or the GPU line of a listing that names a GPU
C17_GpuLines(l) ==
    {<< >>} \cup (IF "gpu" \in DOMAIN l THEN {<<"GPU: " \o l.gpu>>} ELSE {})

C17_ReasonsFormat ==
    pc = "done" =>
        \A j \in 1..Len(recs) :
            LET l == recs[j].listing
                r == recs[j].reasons
            IN  /\ \E g \in C17_GpuLines(l) :
                      r = <<"CPU: " \o l.cpu>> \o g
                          \o <<ToString(l.ramGb) \o "GB RAM">> \o C17_StorageLines(l)
                /\ 2 <= Len(r) /\ Len(r) <= 4
                /\ ("storageGb" \in DOMAIN l /\ l.storageGb = 1536 /\ "storageType" \notin DOMAIN l)
                   => r[Len(r)] = "1.5TB Storage"

\* one output holds the three lines of a listing of 1536 GB without a storage
\* kind and without a discrete GPU, and a list of four lines
C17_Witness ==
    /\ pc = "done"
    /\ \E j \in 1..Len(recs) :
          recs[j].reasons = <<"CPU: AMD Ryzen 5", "4GB RAM", "1.5TB Storage">>
    /\ \E j \in 1..Len(recs) :
          /\ Len(recs[j].reasons) = 4
          /\ recs[j].reasons[2] = "GPU: " \o recs[j].listing.gpu

(***************************************************************************)
(* C18: the four budget ranges give exactly these bounds in dollars:       *)
(* under700 0 and 700, 700-999 700 and 999, 1000-1499 1000 and 1499,       *)
(* 1500plus 1500 and no upper bound.  The route passes the same bounds,    *)
(* not widened, to the upstream search, without minPrice when the minimum  *)
(* is 0 and without maxPrice when there is no upper bound.                 *)
(***************************************************************************)
\* a request is in progress and its budget range is one of the four
BudgetRequested(b) ==
    pc # "idle" /\ "budgetRange" \in DOMAIN prefs /\ prefs.budgetRange = b

\* the price bounds of the argument of the upstream search
PriceParams == [f \in DOMAIN searchParams \cap {"minPrice", "maxPrice"} |-> searchParams[f]]

\* the route has called the upstream search for the request
SearchCalled == caller = "route" /\ configured /\ pc \in {"await", "done"}

C18_BudgetTable ==
    /\ BudgetRequested("under700") =>
          /\ PrefMin = 0 /\ PrefMax = 700
          /\ SearchCalled => PriceParams = [maxPrice |-> 700]
    /\ BudgetRequested("700-999") =>
          /\ PrefMin = 700 /\ PrefMax = 999
          /\ SearchCalled => PriceParams = [minPrice |-> 700, maxPrice |-> 999]
    /\ BudgetRequested("1000-1499") =>
          /\ PrefMin = 1000 /\ PrefMax = 1499
          /\ SearchCalled => PriceParams = [minPrice |-> 1000, maxPrice |-> 1499]
    /\ BudgetRequested("1500plus") =>
          /\ PrefMin = 1500 /\ PrefMax = Infinity
          /\ SearchCalled => PriceParams = [minPrice |-> 1500]

\* the route has searched under 700 dollars with a maxPrice of 700 and no minPrice,
\* and answers with a listing the search returned
C18_Witness ==
    /\ Responded
    /\ SearchCalled
    /\ prefs.budgetRange = "under700"
    /\ searchParams = [searchTerm |-> "gaming desktop computer PC", limit |-> 40, maxPrice |-> 700]
    /\ ~usedMockData
    /\ recs # <<>>

(***************************************************************************)
(* C19: the four storage tiers give exactly these minimums: 256-512 256    *)
(* GB, 1tb 1024 GB, 2tb 2048 GB, any no minimum (null).                    *)
(***************************************************************************)
\* a call has ended normally and its storage tier is the given one
TierRequested(t) ==
    pc = "done" /\ "minSsdStorageTier" \in DOMAIN prefs /\ prefs.minSsdStorageTier = t

\* every listing kept by the filters has an unknown storage size or at least gb
KeptHaveAtLeast(gb) ==
    \A i \in 1..Len(filtered) :
        "storageGb" \in DOMAIN filtered[i] /\ filtered[i].storageGb # 0
        => filtered[i].storageGb >= gb

\* every candidate with the mandatory fields, a price in the widened interval and
\* a storage size of at least gb is kept
AtLeastAreKept(gb) ==
    \A i \in 1..Len(candidates) :
        (/\ HasMandatoryFields(candidates[i])
         /\ InWidened(candidates[i])
         /\ "storageGb" \in DOMAIN candidates[i]
         /\ candidates[i].storageGb >= gb)
        => InSeq(candidates[i], filtered)

C19_StorageTable ==
    /\ TierRequested("256-512") =>
          /\ storageTierToMinGb(prefs.minSsdStorageTier) = <<256>>
          /\ KeptHaveAtLeast(256) /\ AtLeastAreKept(256)
    /\ TierRequested("1tb") =>
          /\ storageTierToMinGb(prefs.minSsdStorageTier) = <<1024>>
          /\ KeptHaveAtLeast(1024) /\ AtLeastAreKept(1024)
    /\ TierRequested("2tb") =>
          /\ storageTierToMinGb(prefs.minSsdStorageTier) = <<2048>>
          /\ KeptHaveAtLeast(2048) /\ AtLeastAreKept(2048)
    /\ TierRequested("any") =>
          /\ storageTierToMinGb(prefs.minSsdStorageTier) = << >>
          /\ AtLeastAreKept(0)

\* a request for 1 TB keeps a listing of exactly 1024 GB and drops one of 512 GB
\* that is within the budget
C19_Witness ==
    /\ TierRequested("1tb")
    /\ \E i \in 1..Len(filtered) :
          "storageGb" \in DOMAIN filtered[i] /\ filtered[i].storageGb = 1024
    /\ \E i \in 1..Len(candidates) :
          /\ HasMandatoryFields(candidates[i])
          /\ InWidened(candidates[i])
          /\ "storageGb" \in DOMAIN candidates[i] /\ candidates[i].storageGb = 512
          /\ ~InSeq(candidates[i], filtered)

(***************************************************************************)
(* C21: inferGpuTier assigns the tiers by inclusive thresholds on the      *)
(* model number and marks every matched model discrete: RTX from 4080 5,   *)
(* from 4070 4, from 4060 3, from 3060 2, else 1; every GTX model 1;       *)
(* Radeon RX from 7900 5, from 7800 4, from 7600 3, from 6600 2, else 1;   *)
(* Intel Arc A from 770 3, from 750 2, else 1; no label gives tier 0, not  *)
(* discrete.  Within a family the tier does not decrease with the model    *)
(* number, and RTX 4080 itself has tier 5.                                 *)
(***************************************************************************)
\* the one listing of a call that has ended, and what inferGpuTier makes of its GPU
Ranked == candidates[1]

GpuInfoOfRanked == inferGpuTier(Opt(Ranked, "gpu"))

OneRanked == pc = "done" /\ Len(candidates) = 1 /\ Len(recs) = 1

C21_RtxTier(n) ==
    IF n >= 4080 THEN 5 ELSE IF n >= 4070 THEN 4 ELSE IF n >= 4060 THEN 3
    ELSE IF n >= 3060 THEN 2 ELSE 1

C21_RxTier(n) ==
    IF n >= 7900 THEN 5 ELSE IF n >= 7800 THEN 4 ELSE IF n >= 7600 THEN 3
    ELSE IF n >= 6600 THEN 2 ELSE 1

C21_ArcTier(n) == IF n >= 770 THEN 3 ELSE IF n >= 750 THEN 2 ELSE 1

\* the score in tenths that the tiers give at the price of the pool
C21_ScoreWith(gpuTier) ==
    LET rangeMid == RangeMid(PrefMin, PrefMax)
    IN  Score(Perf(inferCpuTier(Ranked.cpu), gpuTier, inferRamScore(Ranked.ramGb)),
              BudgetFitNum(Ranked.priceUsd, rangeMid), rangeMid)

\* the tier and the flag are the given ones, and the score and the GPU line follow them
C21_Judged(gpuTier, isDiscrete) ==
    /\ GpuInfoOfRanked = [tier |-> gpuTier, isDiscrete |-> isDiscrete]
    /\ recs[1].score = C21_ScoreWith(gpuTier)
    /\ HasGpuLine(recs[1]) <=> isDiscrete

C21_GpuThresholds ==
    OneRanked =>
        /\ "gpu" \notin DOMAIN Ranked => C21_Judged(0, FALSE)
        /\ \A n \in RtxModels :
              ("gpu" \in DOMAIN Ranked /\ Ranked.gpu = RtxLabel(n))
              => /\ C21_Judged(C21_RtxTier(n), TRUE)
                 /\ n = 4080 => GpuInfoOfRanked.tier = 5
                 /\ \A m \in RtxModels :
                       m <= n => inferGpuTier(<<RtxLabel(m)>>).tier <= GpuInfoOfRanked.tier
        /\ \A n \in GtxModels :
              ("gpu" \in DOMAIN Ranked /\ Ranked.gpu = GtxLabel(n)) => C21_Judged(1, TRUE)
        /\ \A n \in RxModels :
              ("gpu" \in DOMAIN Ranked /\ Ranked.gpu = RxLabel(n))
              => /\ C21_Judged(C21_RxTier(n), TRUE)
                 /\ \A m \in RxModels :
                       m <= n => inferGpuTier(<<RxLabel(m)>>).tier <= GpuInfoOfRanked.tier
        /\ \A n \in ArcModels :
              ("gpu" \in DOMAIN Ranked /\ Ranked.gpu = ArcLabel(n))
              => /\ C21_Judged(C21_ArcTier(n), TRUE)
                 /\ \A m \in ArcModels :
                       m <= n => inferGpuTier(<<ArcLabel(m)>>).tier <= GpuInfoOfRanked.tier

\* the listing with an RTX 4080 is ranked with tier 5 and shows its GPU line
C21_Witness ==
    /\ OneRanked
    /\ "gpu" \in DOMAIN Ranked /\ Ranked.gpu = "NVIDIA GeForce RTX 4080"
    /\ GpuInfoOfRanked.tier = 5
    /\ HasGpuLine(recs[1])

(***************************************************************************)
(* C22 as stated: for every CPU label the extractor can produce the CPU    *)
(* tier is: Intel Core i9 5, i7 4, i5 3, i3 2; AMD Ryzen 9 5, 7 4, 5 3,    *)
(* 3 2; Apple M{digit} Max 5, Apple M{digit} Pro 4, any other Apple        *)
(* M{digit} 3; the tier is an integer from 1 to 5.                         *)
(***************************************************************************)
CpuTierOfRanked == inferCpuTier(Ranked.cpu)

\* the tier of the digit that ends an Intel Core or an AMD Ryzen label
C22_DigitTier(d) == CASE d = "9" -> 5 [] d = "7" -> 4 [] d = "5" -> 3 [] d = "3" -> 2

\* the CPU tier is the given one and the score follows it
C22_Judged(cpuTier) ==
    /\ CpuTierOfRanked = cpuTier
    /\ recs[1].score =
          LET rangeMid == RangeMid(PrefMin, PrefMax)
          IN  Score(Perf(cpuTier, GpuInfoOfRanked.tier, inferRamScore(Ranked.ramGb)),
                    BudgetFitNum(Ranked.priceUsd, rangeMid), rangeMid)

C22_Original ==
    (OneRanked /\ Ranked.cpu \in TierCpuLabels) =>
        /\ CpuTierOfRanked \in 1..5
        /\ \A d \in {"3", "5", "7", "9"} :
              /\ Ranked.cpu = "Intel Core i" \o d => C22_Judged(C22_DigitTier(d))
              /\ Ranked.cpu = "AMD Ryzen " \o d => C22_Judged(C22_DigitTier(d))
        /\ Ranked.cpu = "INTEL CORE I9" => C22_Judged(5)
        /\ Ranked.cpu = "Amd  Ryzen 7" => C22_Judged(4)
        /\ \A d \in Digits :
              /\ Ranked.cpu = "Apple M" \o d \o " Max" => C22_Judged(5)
              /\ Ranked.cpu = "Apple M" \o d \o " Pro" => C22_Judged(4)
              /\ Ranked.cpu = "Apple M" \o d => C22_Judged(3)

(***************************************************************************)
(* C23 as stated: every listing that mapCanopyResultToListing builds from  *)
(* a raw record has its URL as id, a title and a URL that are not empty, a *)
(* positive finite price, a CPU label that is not empty and a positive     *)
(* whole number of RAM gigabytes; a raw record with a mandatory field      *)
(* missing or not extracted gives no listing.                              *)
(***************************************************************************)
\* the candidates of the state are the listings the route built from the results
CandidatesMapped == pc = "done" /\ caller = "route" /\ search = "ok"

C23_Original ==
    CandidatesMapped =>
        /\ \A i \in 1..Len(candidates) :
              LET l == candidates[i]
              IN  /\ l.id = l.amazonUrl
                  /\ l.title # "" /\ l.amazonUrl # ""
                  /\ "priceUsd" \in DOMAIN l /\ l.priceUsd > 0
                  /\ l.cpu # ""
                  /\ l.ramGb \in Nat \ {0}
        /\ \A i \in 1..Len(results) :
              results[i] \in RawMissingData
              => \A j \in 1..Len(candidates) : candidates[j].id # results[i].url

(***************************************************************************)
(* C24 as stated: the patterns of RAM and of storage in GB do not collide: *)
(* in every title the number that parseStorage takes through its pattern   *)
(* of 3 to 4 digits is never the occurrence that parseRamGb took as the    *)
(* RAM size; with "128GB DDR5 RAM" and "512GB SSD" in the title the        *)
(* storage size is 512, not 128.                                           *)
(***************************************************************************)
\* the route has mapped the one record its search returned
MappedOne == CandidatesMapped /\ Len(results) = 1

\* where in the lower-cased title parseRamGb took the RAM size, 0 if nowhere
RamOccurrence(t) ==
    LET ramMatch == Leftmost({i \in Positions(t) : RamMatchAt(t, i) # 0})
        ddrMatch == Leftmost({i \in Positions(t) : DdrMatchAt(t, i) # 0})
    IN  IF ramMatch # 0 THEN ramMatch ELSE ddrMatch

\* where parseStorage took the size through its GB pattern, 0 if it did not
GbOccurrence(t) ==
    IF \E i \in Positions(t) : TbMatchAt(t, i) # 0 THEN 0
    ELSE Leftmost({i \in Positions(t) : GbMatchAt(t, i) # 0})

C24_Original ==
    MappedOne =>
        LET t == toLowerCase(results[1].title)
        IN  /\ (GbOccurrence(t) # 0 /\ RamOccurrence(t) # 0) => GbOccurrence(t) # RamOccurrence(t)
            /\ results[1].title = "PC Intel Core i7, 128GB DDR5 RAM, 512GB SSD"
               => /\ Len(candidates) = 1
                  /\ candidates[1].ramGb = 128
                  /\ "storageGb" \in DOMAIN candidates[1]
                  /\ candidates[1].storageGb = 512

(***************************************************************************)
(* C25: parseStorage tries the TB pattern before the GB pattern wherever   *)
(* the two stand in the title, and turns TB into GB as round(value *       *)
(* 1024).  With a size it returns a kind: SSD if the title contains "nvme" *)
(* or "ssd", else HDD if it contains the word "hdd", else Unknown.  When   *)
(* no size pattern matches, size and kind are both absent whatever the     *)
(* keywords: the size is present if and only if the kind is.               *)
(***************************************************************************)
\* the kind the keywords of a title give
C25_Kind(title) ==
    LET t == toLowerCase(title)
    IN  IF Contains(t, "nvme") \/ Contains(t, "ssd") THEN "SSD"
        ELSE IF HasWord(t, "hdd") THEN "HDD"
        ELSE "Unknown"

\* size and kind of the titles with a TB size, and of those without any size
C25_Expected(title) ==
    CASE title = "PC Intel Core i5, 16GB RAM, 512GB SSD + 1TB HDD" -> <<1024, "SSD">>
      [] title = "PC Intel Core i5, 16GB RAM, 1.5TB HDD" -> <<1536, "HDD">>
      [] title = "PC Intel Core i5, 16GB RAM, 2 TB NVMe" -> <<2048, "SSD">>
      [] title = "PC Intel Core i5, 16GB RAM, 0.5TB HDDs" -> <<512, "Unknown">>
      [] title = "PC Intel Core i5, 256 GB RAM, 4TB HDD" -> <<4096, "HDD">>
      [] title = "PC Intel Core i5, 16GB RAM, 512GB SSD" -> <<512, "SSD">>
      [] title = "PC Intel Core i5, 16GB RAM, 500GB" -> <<500, "Unknown">>
      [] title = "PC Intel Core i5, 16GB RAM, 1000GB HDD" -> <<1000, "HDD">>
      [] title = "PC Intel Core i5, 16GB RAM, fast SSD" -> << >>
      [] title = "PC Intel Core i5, 16GB RAM, HDD" -> << >>
      [] title = "PC Intel Core i5, 16GB RAM, 12345GB SSD" -> << >>
      [] title = "PC Intel Core i5, 16GB RAM" -> << >>
      [] OTHER -> <<0>>

Shown == <<client.loading, client.error, client.recommendations, client.usedMockData>>

\* the step is a step of run r: its fetch or its res.json() settles
SettlesIn(r) == r \in DOMAIN runs' /\ runs'[r].at # runs[r].at

C26_CancelledRunIsInert ==
    [][\A r \in DOMAIN runs : (runs[r].cancelled /\ SettlesIn(r)) => Shown' = Shown]_vars

\* a cancelled run has received the body of its response and ended, while the
\* component is mounted and shows something else
C26_Witness ==
    /\ client.mounted
    /\ \E r \in DOMAIN runs :
          /\ runs[r].cancelled
          /\ runs[r].at = "ended"
          /\ runs[r].response # <<>>
          /\ runs[r].response[1].recommendations # <<>>
          /\ client.recommendations # runs[r].response[1].recommendations

(***************************************************************************)
(* C27 as stated: after any sequence of preference changes and fetch       *)
(* outcomes ResultsClient shows the cards when results arrive, or the      *)
(* error if something went wrong: whenever an error message is displayed,  *)
(* no recommendation card is displayed with it.                            *)
(***************************************************************************)
C27_Original ==
    (client.mounted /\ client.error # <<>>) => client.recommendations = <<>>

(***************************************************************************)
(* C30 as stated: under any interleaving of preference changes and fetch   *)
(* completions, whenever loading is false and error is null the            *)
(* recommendations and the usedMockData flag shown are those of the        *)
(* response to the request issued for the current prefs, never those of a  *)
(* superseded request; and once the fetch of the current request has       *)
(* settled, loading is false.                                              *)
(***************************************************************************)
\* the latest run is the request for the prefs the component has now
LatestIsCurrent ==
    /\ runs # <<>>
    /\ ~runs[Len(runs)].cancelled
    /\ runs[Len(runs)].prefs = client.prefs

C30_Original ==
    client.mounted =>
        /\ (~client.loading /\ client.error = <<>>)
           => /\ LatestIsCurrent
              /\ runs[Len(runs)].response # <<>>
              /\ client.recommendations = runs[Len(runs)].response[1].recommendations
              /\ client.usedMockData = runs[Len(runs)].response[1].usedMockData
        /\ (~client.effectPending /\ LatestIsCurrent /\ runs[Len(runs)].at = "ended")
           => ~client.loading

(***************************************************************************)
(* C28: recommendFromCandidates does not modify its inputs. After a call   *)
(* the candidates array holds the elements it was handed, in the order it  *)
(* was handed them, and every listing of the kept set and of the result is *)
(* one of them, unchanged. MOCK_CANDIDATES therefore keeps its five        *)
(* listings in their order across requests, and every request that falls   *)
(* back to it is handed those five listings.                               *)
(***************************************************************************)
ElementsOf(seq) == {seq[i] : i \in DOMAIN seq}

CoverJudged == pc = "done" /\ Len(given) = 1 /\ prefs.minSsdStorageTier = "any"

\* the budget ranges whose filter keeps the listing under the given options
AcceptingRanges(listing, opts) ==
    {r \in BudgetRanges :
        Filtered(<<listing>>, [budgetRange |-> r, minSsdStorageTier |-> "any"], opts) # <<>>}

\* a price in cents strictly inside one of the two gaps of the plain intervals
InGap(cents) == (99900 < cents /\ cents < 100000) \/ (149900 < cents /\ cents < 150000)

C29_WidenedCover ==
    CoverJudged =>
        LET listing == given[1]
            accepting == AcceptingRanges(listing, options)
        IN  /\ (filtered # <<>>) <=> (prefs.budgetRange \in accepting)
            /\ (listing.priceUsd > 0 /\ "budgetTolerancePct" \notin DOMAIN options) =>
                   accepting # {}
            /\ (listing.priceUsd > 0 /\ options = [budgetTolerancePct |-> 0]) =>
                   ((accepting = {}) <=> InGap(listing.priceUsd))

\* a price between 999 and 1000 dollars is kept under the default tolerance
C29_Witness ==
    /\ CoverJudged
    /\ options = <<>>
    /\ given[1].priceUsd = 99950
    /\ filtered # <<>>

====
